---- MODULE Spec2Model ----
(***************************************************************************)
(* Model of the dropbox-sign-go client: the three API calls of Client,     *)
(* the response envelope parser (parseResponse), the error classifier      *)
(* (parseErrorResponse) and the error types they produce.                  *)
(*                                                                         *)
(* A response body is modelled by its JSON syntax tree, or by a token for  *)
(* text that is not JSON at all.  A JSON value is a pair <<tag, content>>. *)
(* encoding/json is modelled by what it does to such a tree when decoding  *)
(* into the Go types of the package: null leaves the target untouched, a   *)
(* value of the wrong JSON type is skipped and reported as an error after  *)
(* the rest has been decoded, unknown object members are ignored.          *)
(***************************************************************************)
EXTENDS Integers, Sequences, FiniteSets, TLC

(***************************************************************************)
(* Bounds                                                                  *)
(***************************************************************************)
\* longest "warnings" array in a response body
MaxWarnings == 2
\* goroutines that share one client
MaxGoroutines == 2
\* setter calls of a program that builds a request
MaxSetterCalls == 2

(***************************************************************************)
(* JSON syntax trees                                                       *)
(***************************************************************************)
JNull == <<"null", "null">>
JStr(s) == <<"string", s>>
JNum(n) == <<"number", n>>
JBool(b) == <<"bool", b>>
JArr(elems) == <<"array", elems>>
JObj(members) == <<"object", members>>
\* body text that is not valid JSON; which tells the texts apart
Invalid(which) == <<"invalid", which>>
\* generator marker: the member is left out of the object
Absent == <<"absent", "absent">>

Tag(v) == v[1]
Has(v, k) == Tag(v) = "object" /\ k \in DOMAIN v[2]
Member(v, k) == v[2][k]

\* the object with the members of f that are not Absent
MkObj(f) ==
    JObj([k \in {x \in DOMAIN f : f[x] # Absent} |-> f[k]])

SeqsUpTo(S, n) == UNION {[1..m -> S] : m \in 0..n}

(***************************************************************************)
(* Go values                                                               *)
(***************************************************************************)
\* the nil error
Nil == [kind |-> "nil"]
\* a nil pointer / a pointer to v
NilPtr == [ptr |-> FALSE, v |-> ""]
Ptr(x) == [ptr |-> TRUE, v |-> x]
\* a nil slice / a slice with the given elements
NilSlice == [isNil |-> TRUE, elems |-> <<>>]
Slice(s) == [isNil |-> FALSE, elems |-> s]

\* *json.SyntaxError
SyntaxError == [kind |-> "SyntaxError"]
\* *json.UnmarshalTypeError: JSON value of type jt cannot go into Go type gt
UnmarshalTypeError(jt, gt) == [kind |-> "UnmarshalTypeError", Value |-> jt, Type |-> gt]
\* fmt.Errorf: text is the formatted message, cause the %w operand (Nil if none)
Errorf(text, cause) == [kind |-> "wrapError", text |-> text, cause |-> cause]

\* an error that is only a text (errors.New, fmt.Errorf without %w)
ErrorText(text) == [kind |-> "errorString", text |-> text]

\* the first error of a sequence of errors, Nil if there is none
FirstErr(errs) ==
    IF \E i \in DOMAIN errs : errs[i] # Nil
    THEN errs[CHOOSE i \in DOMAIN errs :
                 errs[i] # Nil /\ \A j \in 1..(i-1) : errs[j] = Nil]
    ELSE Nil

(***************************************************************************)
(* encoding/json decoding into the Go types of the package.  A decoder     *)
(* takes the JSON value and the current Go value and yields the new Go     *)
(* value and the error it reports (Nil when none).                         *)
(***************************************************************************)
Decoded(val, err) == [val |-> val, err |-> err]

\* a Go string field
DecodeString(v, cur) ==
    CASE Tag(v) = "null" -> Decoded(cur, Nil)
      [] Tag(v) = "string" -> Decoded(v[2], Nil)
      [] OTHER -> Decoded(cur, UnmarshalTypeError(Tag(v), "string"))

\* a Go *string field
DecodeStringPtr(v, cur) ==
    CASE Tag(v) = "null" -> Decoded(NilPtr, Nil)
      [] Tag(v) = "string" -> Decoded(Ptr(v[2]), Nil)
      [] OTHER -> Decoded(cur, UnmarshalTypeError(Tag(v), "string"))

\* the string (*string) struct field tagged k: decoded when the object has
\* the member, left as it is otherwise
DecodeStringField(obj, k, cur) ==
    IF Has(obj, k) THEN DecodeString(Member(obj, k), cur) ELSE Decoded(cur, Nil)

DecodeStringPtrField(obj, k, cur) ==
    IF Has(obj, k) THEN DecodeStringPtr(Member(obj, k), cur) ELSE Decoded(cur, Nil)

\* type WarningResponse
ZeroWarningResponse == [WarningMsg |-> "", WarningName |-> ""]

\* WarningResponse with the two struct tags exchanged
DecodeWarningResponse_Swapped(v, cur) ==
    CASE Tag(v) = "null" -> Decoded(cur, Nil)
      [] Tag(v) = "object" ->
            LET m == DecodeStringField(v, "warning_name", cur.WarningMsg)
                n == DecodeStringField(v, "warning_msg", cur.WarningName)
            IN  Decoded([WarningMsg |-> m.val, WarningName |-> n.val],
                        FirstErr(<<m.err, n.err>>))
      [] OTHER -> Decoded(cur, UnmarshalTypeError(Tag(v), "WarningResponse"))

DecodeWarningResponse(v, cur) ==
    CASE Tag(v) = "null" -> Decoded(cur, Nil)
      [] Tag(v) = "object" ->
            LET m == DecodeStringField(v, "warning_msg", cur.WarningMsg)
                n == DecodeStringField(v, "warning_name", cur.WarningName)
            IN  Decoded([WarningMsg |-> m.val, WarningName |-> n.val],
                        FirstErr(<<m.err, n.err>>))
      [] OTHER -> Decoded(cur, UnmarshalTypeError(Tag(v), "WarningResponse"))

\* a []WarningResponse: every element is decoded, a bad one stays zero
DecodeWarnings(v, cur) ==
    CASE Tag(v) = "null" -> Decoded(NilSlice, Nil)
      [] Tag(v) = "array" ->
            LET d == [i \in DOMAIN v[2] |->
                         DecodeWarningResponse(v[2][i], ZeroWarningResponse)]
            IN  Decoded(Slice([i \in DOMAIN v[2] |-> d[i].val]),
                        FirstErr([i \in DOMAIN v[2] |-> d[i].err]))
      [] OTHER -> Decoded(cur, UnmarshalTypeError(Tag(v), "[]WarningResponse"))

\* type SignatureRequestResponse, reduced to two of its string fields
ZeroSignatureRequestResponse == [SignatureRequestID |-> "", Title |-> ""]

\* SignatureRequestResponse with a misspelt tag on Title
DecodeSignatureRequestResponse_NoTitle(v, cur) ==
    CASE Tag(v) = "null" -> Decoded(cur, Nil)
      [] Tag(v) = "object" ->
            LET i == DecodeStringField(v, "signature_request_id", cur.SignatureRequestID)
                t == DecodeStringField(v, "titel", cur.Title)
            IN  Decoded([SignatureRequestID |-> i.val, Title |-> t.val],
                        FirstErr(<<i.err, t.err>>))
      [] OTHER -> Decoded(cur, UnmarshalTypeError(Tag(v), "SignatureRequestResponse"))

DecodeSignatureRequestResponse(v, cur) ==
    CASE Tag(v) = "null" -> Decoded(cur, Nil)
      [] Tag(v) = "object" ->
            LET i == DecodeStringField(v, "signature_request_id", cur.SignatureRequestID)
                t == DecodeStringField(v, "title", cur.Title)
            IN  Decoded([SignatureRequestID |-> i.val, Title |-> t.val],
                        FirstErr(<<i.err, t.err>>))
      [] OTHER -> Decoded(cur, UnmarshalTypeError(Tag(v), "SignatureRequestResponse"))

\* type ErrorResponseError; Status is tagged json:"-" and never decoded
ZeroErrorResponseError ==
    [kind |-> "ErrorResponseError", Status |-> 0, ErrorMsg |-> "",
     ErrorPath |-> NilPtr, ErrorName |-> ""]

DecodeErrorResponseError(v, cur) ==
    CASE Tag(v) = "null" -> Decoded(cur, Nil)
      [] Tag(v) = "object" ->
            LET m == DecodeStringField(v, "error_msg", cur.ErrorMsg)
                p == DecodeStringPtrField(v, "error_path", cur.ErrorPath)
                n == DecodeStringField(v, "error_name", cur.ErrorName)
            IN  Decoded([kind |-> "ErrorResponseError", Status |-> cur.Status,
                         ErrorMsg |-> m.val, ErrorPath |-> p.val,
                         ErrorName |-> n.val],
                        FirstErr(<<m.err, p.err, n.err>>))
      [] OTHER -> Decoded(cur, UnmarshalTypeError(Tag(v), "ErrorResponseError"))

\* type ErrorResponse
ZeroErrorResponse == [Error |-> ZeroErrorResponseError]

DecodeErrorResponse(v, cur) ==
    CASE Tag(v) = "null" -> Decoded(cur, Nil)
      [] Tag(v) = "object" ->
            LET e == IF Has(v, "error")
                     THEN DecodeErrorResponseError(Member(v, "error"), cur.Error)
                     ELSE Decoded(cur.Error, Nil)
            IN  Decoded([Error |-> e.val], e.err)
      [] OTHER -> Decoded(cur, UnmarshalTypeError(Tag(v), "ErrorResponse"))

\* a map[string]json.RawMessage: the members are kept undecoded; the nil
\* map is the map without keys
NilMap == [k \in {} |-> JNull]

DecodeRawMap(v, cur) ==
    CASE Tag(v) = "null" -> Decoded(NilMap, Nil)
      [] Tag(v) = "object" -> Decoded(v[2], Nil)
      [] OTHER -> Decoded(cur, UnmarshalTypeError(Tag(v), "map[string]json.RawMessage"))

\* json.Unmarshal into the four targets of the package: the text is
\* checked to be JSON before anything is decoded
UnmarshalRawMap(data) ==
    IF Tag(data) = "invalid" THEN Decoded(NilMap, SyntaxError)
    ELSE DecodeRawMap(data, NilMap)

UnmarshalPayload(data) ==
    IF Tag(data) = "invalid" THEN Decoded(ZeroSignatureRequestResponse, SyntaxError)
    ELSE DecodeSignatureRequestResponse(data, ZeroSignatureRequestResponse)

UnmarshalWarnings(data) ==
    IF Tag(data) = "invalid" THEN Decoded(NilSlice, SyntaxError)
    ELSE DecodeWarnings(data, NilSlice)

UnmarshalErrorResponse(data) ==
    IF Tag(data) = "invalid" THEN Decoded(ZeroErrorResponse, SyntaxError)
    ELSE DecodeErrorResponse(data, ZeroErrorResponse)

\* NewClientError that does not keep the cause
NewClientError_DropsCause(message, statusCode, err) ==
    [kind |-> "ClientError", Message |-> message, StatusCode |-> statusCode,
     Err |-> Nil]

(***************************************************************************)
(* Error values and their Error() text.  A text is a sequence of tokens.   *)
(***************************************************************************)
\* NewClientError
NewClientError(message, statusCode, err) ==
    [kind |-> "ClientError", Message |-> message, StatusCode |-> statusCode,
     Err |-> err]

\* the Error() text of the errors that encoding/json, fmt, net/http and
\* context produce
LibErrorString(e) ==
    CASE e.kind = "SyntaxError" -> <<"invalid character">>
      [] e.kind = "UnmarshalTypeError" ->
            <<"json: cannot unmarshal ", e.Value, " into Go value of type ", e.Type>>
      [] e.kind \in {"wrapError", "errorString"} -> e.text
      [] OTHER -> <<e.kind>>

\* (*ClientError).Error
ClientErrorString(e) ==
    IF e.StatusCode > 0
    THEN <<"dropboxsign client error (status ", ToString(e.StatusCode), "): ">>
             \o e.Message
    ELSE IF e.Err # Nil
    THEN <<"dropboxsign client error: ">> \o e.Message \o <<": ">>
             \o LibErrorString(e.Err)
    ELSE <<"dropboxsign client error: ">> \o e.Message

\* (*ClientError).Unwrap
Unwrap(e) == e.Err

(***************************************************************************)
(* parseResponse and parseErrorResponse                                    *)
(***************************************************************************)
NilPayload == [ptr |-> FALSE, v |-> ZeroSignatureRequestResponse]

Parsed(payload, warnings, err) ==
    [payload |-> payload, warnings |-> warnings, err |-> err]

\* ExtractWarnings without the reset: what was decoded before the error stays
ExtractWarnings_KeepPartial(rawResponse) ==
    LET w == IF "warnings" \in DOMAIN rawResponse
             THEN UnmarshalWarnings(rawResponse["warnings"])
             ELSE Decoded(NilSlice, Nil)
    IN  w.val

\* the warnings of parseResponse: decoded when the member is there, and
\* dropped as a whole when decoding reports an error
ExtractWarnings(rawResponse) ==
    LET w == IF "warnings" \in DOMAIN rawResponse
             THEN UnmarshalWarnings(rawResponse["warnings"])
             ELSE Decoded(NilSlice, Nil)
    IN  IF w.err # Nil THEN NilSlice ELSE w.val

\* parseResponse that takes a missing key for an empty payload
parseResponse_NoKeyCheck(body, key) ==
    LET raw == UnmarshalRawMap(body)
    IN  IF raw.err # Nil
        THEN Parsed(NilPayload, NilSlice,
                    Errorf(<<"failed to unmarshal response: ">>
                               \o LibErrorString(raw.err), raw.err))
        ELSE LET result == UnmarshalPayload(IF key \in DOMAIN raw.val
                                              THEN raw.val[key] ELSE JNull)
             IN  IF result.err # Nil
                 THEN Parsed(NilPayload, NilSlice,
                             Errorf(<<"failed to unmarshal payload: ">>
                                        \o LibErrorString(result.err), result.err))
                 ELSE Parsed(Ptr(result.val), ExtractWarnings(raw.val), Nil)

\* parseResponse that lets a payload through that did not decode
parseResponse_LenientPayload(body, key) ==
    LET raw == UnmarshalRawMap(body)
    IN  IF raw.err # Nil
        THEN Parsed(NilPayload, NilSlice,
                    Errorf(<<"failed to unmarshal response: ">>
                               \o LibErrorString(raw.err), raw.err))
        ELSE IF key \notin DOMAIN raw.val
        THEN Parsed(NilPayload, NilSlice,
                    ErrorText(<<"missing key '", key, "' in response">>))
        ELSE LET result == UnmarshalPayload(raw.val[key])
             IN  Parsed(Ptr(result.val), ExtractWarnings(raw.val), Nil)

\* parseResponse that takes a null under the key for a missing key
parseResponse_NullIsMissing(body, key) ==
    LET raw == UnmarshalRawMap(body)
    IN  IF raw.err # Nil
        THEN Parsed(NilPayload, NilSlice,
                    Errorf(<<"failed to unmarshal response: ">>
                               \o LibErrorString(raw.err), raw.err))
        ELSE IF key \notin DOMAIN raw.val \/ Tag(raw.val[key]) = "null"
        THEN Parsed(NilPayload, NilSlice,
                    ErrorText(<<"missing key '", key, "' in response">>))
        ELSE LET result == UnmarshalPayload(raw.val[key])
             IN  IF result.err # Nil
                 THEN Parsed(NilPayload, NilSlice,
                             Errorf(<<"failed to unmarshal payload: ">>
                                        \o LibErrorString(result.err), result.err))
                 ELSE Parsed(Ptr(result.val), ExtractWarnings(raw.val), Nil)

\* parseResponse[SignatureRequestResponse](body, key)
parseResponse(body, key) ==
    LET raw == UnmarshalRawMap(body)
    IN  IF raw.err # Nil
        THEN Parsed(NilPayload, NilSlice,
                    Errorf(<<"failed to unmarshal response: ">>
                               \o LibErrorString(raw.err), raw.err))
        ELSE IF key \notin DOMAIN raw.val
        THEN Parsed(NilPayload, NilSlice,
                    ErrorText(<<"missing key '", key, "' in response">>))
        ELSE LET result == UnmarshalPayload(raw.val[key])
             IN  IF result.err # Nil
                 THEN Parsed(NilPayload, NilSlice,
                             Errorf(<<"failed to unmarshal payload: ">>
                                        \o LibErrorString(result.err), result.err))
                 ELSE Parsed(Ptr(result.val), ExtractWarnings(raw.val), Nil)

\* parseErrorResponse that forgets to set Status
parseErrorResponse_NoStatus(body, statusCode) ==
    LET errResp == UnmarshalErrorResponse(body)
    IN  IF errResp.err # Nil
        THEN NewClientError(<<"failed to parse error response: ", body>>,
                            statusCode, errResp.err)
        ELSE errResp.val.Error

\* parseErrorResponse that returns nil when the body did not parse
parseErrorResponse_SwallowMalformed(body, statusCode) ==
    LET errResp == UnmarshalErrorResponse(body)
    IN  IF errResp.err # Nil
        THEN Nil
        ELSE [errResp.val.Error EXCEPT !.Status = statusCode]

\* (*Client).parseErrorResponse(body, statusCode)
parseErrorResponse(body, statusCode) ==
    LET errResp == UnmarshalErrorResponse(body)
    IN  IF errResp.err # Nil
        THEN NewClientError(<<"failed to parse error response: ", body>>,
                            statusCode, errResp.err)
        ELSE [errResp.val.Error EXCEPT !.Status = statusCode]

(***************************************************************************)
(* The client and its calls                                                *)
(***************************************************************************)
APIBaseURL == "https://api.hellosign.com/v3"
\* DefaultTimeout, in seconds
DefaultTimeout == 30
\* net/http status codes
StatusOK == 200
StatusBadRequest == 400
StatusUnauthorized == 401
StatusNotFound == 404

\* IsNotFound that looks at API errors only
IsNotFound_OnlyAPIError(err) ==
    IF err.kind = "ErrorResponseError" THEN err.Status = StatusNotFound
    ELSE FALSE

\* IsNotFound: the type assertions err.(ErrorResponseError) and
\* err.(*ClientError), then the comparison of the status
IsNotFound(err) ==
    IF err.kind = "ErrorResponseError" THEN err.Status = StatusNotFound
    ELSE IF err.kind = "ClientError" THEN err.StatusCode = StatusNotFound
    ELSE FALSE

\* IsBadRequest that takes every 4xx status
IsBadRequest_Any4xx(err) ==
    IF err.kind = "ErrorResponseError"
    THEN err.Status >= 400 /\ err.Status < 500
    ELSE IF err.kind = "ClientError"
    THEN err.StatusCode >= 400 /\ err.StatusCode < 500
    ELSE FALSE

\* IsBadRequest
IsBadRequest(err) ==
    IF err.kind = "ErrorResponseError" THEN err.Status = StatusBadRequest
    ELSE IF err.kind = "ClientError" THEN err.StatusCode = StatusBadRequest
    ELSE FALSE

\* IsUnauthorized
IsUnauthorized(err) ==
    IF err.kind = "ErrorResponseError" THEN err.Status = StatusUnauthorized
    ELSE IF err.kind = "ClientError" THEN err.StatusCode = StatusUnauthorized
    ELSE FALSE

\* NewClient that leaves the timeout of its http.Client at the zero value
NewClient_ZeroTimeout(apiKey) ==
    [apiKey |-> apiKey, baseURL |-> APIBaseURL,
     httpClient |-> [Timeout |-> 0,
                    Transport |-> [MaxIdleConns |-> 10, MaxIdleConnsPerHost |-> 5,
                                   IdleConnTimeout |-> 90]]]

\* NewClient; IdleConnTimeout is in seconds
NewClient(apiKey) ==
    [apiKey |-> apiKey, baseURL |-> APIBaseURL,
     httpClient |-> [Timeout |-> DefaultTimeout,
                    Transport |-> [MaxIdleConns |-> 10, MaxIdleConnsPerHost |-> 5,
                                   IdleConnTimeout |-> 90]]]

\* the contexts a caller passes: one that is never done, one that may be
\* cancelled while the call runs, one already cancelled, and the nil context
Ctxs == {"background", "cancelable", "canceled", "nil"}
\* signature request ids; CtlID stands for an id with a control character,
\* which makes the URL unparsable
CtlID == "sig<DEL>"
IDs == {"sig-1", CtlID}

\* a nil *bool / a pointer to the bool b
NilBoolPtr == [ptr |-> FALSE, v |-> FALSE]
BoolPtr(b) == [ptr |-> TRUE, v |-> b]
\* a nil map[string]string / a map with the given key-value pairs, in the
\* order of the keys
NilStringMap == [isNil |-> TRUE, pairs |-> <<>>]
Map(pairs) == [isNil |-> FALSE, pairs |-> pairs]

\* NewSubSignatureRequestTemplateSigner
NewSubSignatureRequestTemplateSigner(role, name, emailAddress) ==
    [Role |-> role, Name |-> name, EmailAddress |-> emailAddress,
     Pin |-> NilPtr, SMSPhoneNumber |-> NilPtr, SMSPhoneNumberType |-> NilPtr]

\* NewSubCustomField
NewSubCustomField(name) ==
    [Name |-> name, Editor |-> NilPtr, Required |-> NilBoolPtr, Value |-> NilPtr]

\* the SubSigningOptions that NewSubSigningOptions points to
NewSubSigningOptions(defaultType) ==
    [DefaultType |-> defaultType, Draw |-> NilBoolPtr, Phone |-> NilBoolPtr,
     Type |-> NilBoolPtr, Upload |-> NilBoolPtr]

\* the SendSignatureRequest that NewSendSignatureRequest points to; the
\* field SigningOptions of a request given to json.Marshal holds the
\* SubSigningOptions it points to
NewSendSignatureRequest(signers, templateIDs) ==
    [Signers |-> signers, TemplateIDs |-> templateIDs,
     AllowDecline |-> NilBoolPtr, CCs |-> NilSlice, ClientID |-> NilPtr,
     CustomFields |-> NilSlice, Files |-> NilSlice, FileURLs |-> NilSlice,
     IsEID |-> NilBoolPtr, Message |-> NilPtr, Metadata |-> NilStringMap,
     SigningOptions |-> [ptr |-> FALSE, v |-> NewSubSigningOptions("")],
     SigningRedirectURL |-> NilPtr, TestMode |-> NilBoolPtr, Title |-> NilPtr]

\* the requests the calls are given: the one of the package's example,
\* without and with a title
Requests ==
    {[NewSendSignatureRequest(
          Slice(<<NewSubSignatureRequestTemplateSigner(
                      "Signer", "John Doe", "john@example.com")>>),
          Slice(<<"template-id">>)) EXCEPT !.Title = t] :
        t \in {NilPtr, Ptr("Contract")}}

\* encoding/json writes a string with the bytes that are not valid UTF-8
\* replaced by U+FFFD; "caf<E9>" stands for a string with such a byte
EncodeString(str) ==
    JStr(IF str = "caf<E9>" THEN "caf<U+FFFD>" ELSE str)
\* encoding/json writes a []byte as a string in base64
EncodeBytes(b) ==
    JStr(CASE b = "%PDF" -> "JVBERg=="
           [] b = "" -> ""
           [] OTHER -> "aGk=")
\* a *string and a *bool with omitempty: left out when nil
EncodeStringPtr(p) == IF p.ptr THEN EncodeString(p.v) ELSE Absent
EncodeBoolPtr(p) == IF p.ptr THEN JBool(p.v) ELSE Absent

\* json.Marshal of the nested types
MarshalSigner(signer) ==
    MkObj([role |-> EncodeString(signer.Role),
           name |-> EncodeString(signer.Name),
           email_address |-> EncodeString(signer.EmailAddress),
           pin |-> EncodeStringPtr(signer.Pin),
           sms_phone_number |-> EncodeStringPtr(signer.SMSPhoneNumber),
           sms_phone_number_type |-> EncodeStringPtr(signer.SMSPhoneNumberType)])
MarshalCustomField(field) ==
    MkObj([name |-> EncodeString(field.Name),
           editor |-> EncodeStringPtr(field.Editor),
           required |-> EncodeBoolPtr(field.Required),
           value |-> EncodeStringPtr(field.Value)])
MarshalSigningOptions(opts) ==
    MkObj([default_type |-> EncodeString(opts.DefaultType),
           draw |-> EncodeBoolPtr(opts.Draw),
           phone |-> EncodeBoolPtr(opts.Phone),
           type |-> EncodeBoolPtr(opts.Type),
           upload |-> EncodeBoolPtr(opts.Upload)])
\* json.Marshal(request); it has no failing case for this type.  A slice
\* without omitempty is null when nil; a slice or a map with omitempty is
\* left out when its length is 0; a
\* map is an object with a member for each key.
Marshal(request) ==
    Decoded(
        MkObj([signers |->
                   IF request.Signers.isNil THEN JNull
                   ELSE JArr([i \in DOMAIN request.Signers.elems |->
                                MarshalSigner(request.Signers.elems[i])]),
               template_ids |->
                   IF request.TemplateIDs.isNil THEN JNull
                   ELSE JArr([i \in DOMAIN request.TemplateIDs.elems |->
                                EncodeString(request.TemplateIDs.elems[i])]),
               allow_decline |-> EncodeBoolPtr(request.AllowDecline),
               ccs |->
                   IF Len(request.CCs.elems) = 0 THEN Absent
                   ELSE JArr([i \in DOMAIN request.CCs.elems |->
                                MkObj([role |-> EncodeString(
                                                    request.CCs.elems[i].Role),
                                       email |-> EncodeString(
                                                    request.CCs.elems[i].Email)])]),
               client_id |-> EncodeStringPtr(request.ClientID),
               custom_fields |->
                   IF Len(request.CustomFields.elems) = 0 THEN Absent
                   ELSE JArr([i \in DOMAIN request.CustomFields.elems |->
                                MarshalCustomField(request.CustomFields.elems[i])]),
               files |->
                   IF Len(request.Files.elems) = 0 THEN Absent
                   ELSE JArr([i \in DOMAIN request.Files.elems |->
                                EncodeBytes(request.Files.elems[i])]),
               file_urls |->
                   IF Len(request.FileURLs.elems) = 0 THEN Absent
                   ELSE JArr([i \in DOMAIN request.FileURLs.elems |->
                                EncodeString(request.FileURLs.elems[i])]),
               is_eid |-> EncodeBoolPtr(request.IsEID),
               message |-> EncodeStringPtr(request.Message),
               metadata |->
                   IF Len(request.Metadata.pairs) = 0 THEN Absent
                   ELSE LET pairs == request.Metadata.pairs
                        IN  JObj([k \in {pairs[i][1] : i \in DOMAIN pairs} |->
                                    EncodeString(
                                        (CHOOSE kv \in {pairs[i] : i \in DOMAIN pairs} :
                                            kv[1] = k)[2])]),
               signing_options |->
                   IF request.SigningOptions.ptr
                   THEN MarshalSigningOptions(request.SigningOptions.v)
                   ELSE Absent,
               signing_redirect_url |-> EncodeStringPtr(request.SigningRedirectURL),
               test_mode |-> EncodeBoolPtr(request.TestMode),
               title |-> EncodeStringPtr(request.Title)]),
        Nil)

NoBody == <<"none", "none">>
NoRequest ==
    [Method |-> "", URL |-> <<>>, User |-> "", Password |-> "",
     ContentType |-> "", Body |-> NoBody]

\* http.NewRequestWithContext: fails on the nil context and on a URL that
\* does not parse
NewRequestWithContext(ctx, method, url, body) ==
    IF ctx = "nil" THEN Decoded(NoRequest, [kind |-> "nil Context"])
    ELSE IF \E i \in DOMAIN url : url[i] = CtlID
    THEN Decoded(NoRequest, [kind |-> "url.Error"])
    ELSE Decoded([Method |-> method, URL |-> url, User |-> "", Password |-> "",
                  ContentType |-> "", Body |-> body], Nil)

\* SetBasicAuth with the two credentials the wrong way round
SetBasicAuth_KeyAsPassword(req, username, password) ==
    [req EXCEPT !.User = password, !.Password = username]

\* (*http.Request).SetBasicAuth
SetBasicAuth(req, username, password) ==
    [req EXCEPT !.User = username, !.Password = password]

\* what a call returns, with the steps it went through
Ret(payload, warnings, err, steps) ==
    [payload |-> payload, warnings |-> warnings, err |-> err, steps |-> steps]
NoRet == Ret(NilPayload, NilSlice, Nil, <<>>)

NoCall == [op |-> "none", ctx |-> "background", req |-> NoRequest]

\* before a program has called a function, made a client or built a request
NoResult == [fn |-> "none", in |-> <<>>, out |-> <<>>]
\* the variables of a program that has built nothing yet: s and opts are
\* nil pointers (sMade, optsMade tell whether they point to an object, and
\* s.SigningOptions holds Ptr("opts") when it points to the object opts),
\* signer and field are values, signerRet and fieldRet hold what the last
\* setter called on such a value returned.  calls lists the setter calls
\* made: the setter, the variable it was called on, its argument and what
\* it returned (the pointer it was called on, or a copy).
NoBuilder ==
    [sMade |-> FALSE,
     s |-> [NewSendSignatureRequest(NilSlice, NilSlice) EXCEPT
               !.SigningOptions = NilPtr],
     optsMade |-> FALSE, opts |-> NewSubSigningOptions(""),
     signerMade |-> FALSE,
     signer |-> NewSubSignatureRequestTemplateSigner("", "", ""),
     signerRet |-> NewSubSignatureRequestTemplateSigner("", "", ""),
     fieldMade |-> FALSE,
     field |-> NewSubCustomField(""), fieldRet |-> NewSubCustomField(""),
     calls |-> <<>>, sent |-> FALSE, body |-> NoBody]

\* the calls of the goroutines that share the client: what a goroutine
\* called (in), the request it handed to Do, the transport's answer and
\* what its call returned
Goroutines == 1 .. MaxGoroutines
NoInput == [op |-> "none", ctx |-> "background", arg |-> <<"none", "none">>]
IdleGoroutine ==
    [pc |-> "idle", in |-> NoInput, req |-> NoRequest,
     resp |-> [doErr |-> Nil, StatusCode |-> 0, body |-> NoBody, readErr |-> Nil],
     ret |-> NoRet]

VARIABLES
    result,      \* the last call of a function on a value: its input and output
    config,      \* the client a program configures, with its http.Client objects
    builder,     \* the request a program builds, with its signer, field, options
    goroutines,  \* the calls of the goroutines of the concurrent specification
    client,   \* the Client: apiKey, baseURL, httpClient
    pc,       \* "idle", or "do" while a call waits in httpClient.Do
    call,     \* the running (or the last) call: operation, context, request
    resp,     \* what the transport gave the last call
    ret       \* what the last call returned

vars == <<client, pc, call, resp, ret, goroutines, result, config, builder>>

(***************************************************************************)
(* What the transport can give a call                                      *)
(***************************************************************************)
Statuses == {200, 201, 400, 401, 404, 500}

W1 == MkObj([warning_msg |-> JStr("m1"), warning_name |-> JStr("n1")])
W2 == MkObj([warning_msg |-> JStr("m2"), warning_name |-> JStr("n2")])
WarningElems == {W1, W2, JNull, JNum(5)}
WarningsMembers ==
    {Absent, JNull, JStr("w")}
        \cup {JArr(s) : s \in SeqsUpTo(WarningElems, MaxWarnings)}

PayloadMembers ==
    {Absent, JNull, JStr("x")}
        \cup {MkObj([signature_request_id |-> i, title |-> t]) :
                 i \in {Absent, JStr("abc"), JNum(7)}, t \in {Absent, JStr("T")}}

\* { "signature_request": ..., "warnings": ... }
EnvelopeBodies ==
    {MkObj([signature_request |-> p, warnings |-> w]) :
        p \in PayloadMembers, w \in WarningsMembers}

ErrorMembers ==
    {JNull, JStr("e")}
        \cup {MkObj([error_msg |-> m, error_name |-> JStr("not_found"),
                     error_path |-> p, status |-> s]) :
                 m \in {Absent, JStr("Signature request not found"), JNum(1)},
                 p \in {Absent, JNull, JStr(""), JStr("signers[0]")},
                 s \in {Absent, JNum(418)}}

\* { "error": ... }
ErrorBodies == {MkObj([error |-> e]) : e \in ErrorMembers}

OtherBodies ==
    {Invalid(""), Invalid("<html>"), JNull, JArr(<<>>), JStr("x"),
     MkObj([other_key |-> MkObj(<<>>)])}

Bodies == EnvelopeBodies \cup ErrorBodies \cup OtherBodies

NetErr == [kind |-> "url.Error", cause |-> "connection refused"]
Canceled == [kind |-> "url.Error", cause |-> "context canceled"]
DeadlineExceeded == [kind |-> "url.Error", cause |-> "context deadline exceeded"]
ReadErr == [kind |-> "unexpected EOF"]
\* what Do and the body's Read report when the context is done
CtxErrs == {Canceled, DeadlineExceeded}

Outcome(doErr, statusCode, body, readErr) ==
    [doErr |-> doErr, StatusCode |-> statusCode, body |-> body,
     readErr |-> readErr]
NoResp == Outcome(Nil, 0, NoBody, Nil)

\* the results of httpClient.Do followed by io.ReadAll under context ctx:
\* a context that may be done while the call runs is cancelled or runs into
\* its deadline, in Do or while the body is read
Outcomes(ctx) ==
    IF ctx = "canceled" THEN {Outcome(Canceled, 0, NoBody, Nil)}
    ELSE {Outcome(e, 0, NoBody, Nil) :
             e \in IF ctx = "cancelable" THEN {NetErr} \cup CtxErrs
                   ELSE {NetErr}}
         \cup {Outcome(Nil, st, NoBody, e) :
                  st \in Statuses,
                  e \in IF ctx = "cancelable" THEN {ReadErr} \cup CtxErrs
                        ELSE {ReadErr}}
         \cup {Outcome(Nil, st, b, Nil) : st \in Statuses, b \in Bodies}

(***************************************************************************)
(* The calls.  Each call runs up to httpClient.Do in one step and from the *)
(* transport's answer to its return in a second one.                       *)
(***************************************************************************)
Failed(err, steps) == Ret(NilPayload, NilSlice, err, steps)

\* GetSignatureRequest that hands out what it could parse next to the error
\* of a response that is not a 200
GetSignatureRequestReturn_PartialOnError(t, steps) ==
    IF t.doErr # Nil
    THEN Failed(NewClientError(<<"failed to execute request">>, 0, t.doErr), steps)
    ELSE IF t.readErr # Nil
    THEN Failed(NewClientError(<<"failed to read response body">>,
                               t.StatusCode, t.readErr),
                Append(steps, "read"))
    ELSE LET r == parseResponse(t.body, "signature_request")
         IN  IF t.StatusCode # StatusOK
             THEN Ret(r.payload, r.warnings,
                      parseErrorResponse(t.body, t.StatusCode),
                      steps \o <<"read", "parseErrorResponse">>)
             ELSE IF r.err # Nil
             THEN Failed(NewClientError(<<"failed to parse response">>,
                                        t.StatusCode, r.err),
                         steps \o <<"read", "parseResponse">>)
             ELSE Ret(r.payload, r.warnings, Nil,
                      steps \o <<"read", "parseResponse">>)

\* GetSignatureRequest and SendWithTemplate from the result of Do on
GetSignatureRequestReturn(t, steps) ==
    IF t.doErr # Nil
    THEN Failed(NewClientError(<<"failed to execute request">>, 0, t.doErr), steps)
    ELSE IF t.readErr # Nil
    THEN Failed(NewClientError(<<"failed to read response body">>,
                               t.StatusCode, t.readErr),
                Append(steps, "read"))
    ELSE IF t.StatusCode # StatusOK
    THEN Failed(parseErrorResponse(t.body, t.StatusCode),
                steps \o <<"read", "parseErrorResponse">>)
    ELSE LET r == parseResponse(t.body, "signature_request")
         IN  IF r.err # Nil
             THEN Failed(NewClientError(<<"failed to parse response">>,
                                        t.StatusCode, r.err),
                         steps \o <<"read", "parseResponse">>)
             ELSE Ret(r.payload, r.warnings, Nil,
                      steps \o <<"read", "parseResponse">>)

\* SendWithTemplate that reports a body it could not read without the status
SendWithTemplateReturn_ReadErrNoStatus(t, steps) ==
    IF t.doErr # Nil
    THEN Failed(NewClientError(<<"failed to execute request">>, 0, t.doErr), steps)
    ELSE IF t.readErr # Nil
    THEN Failed(NewClientError(<<"failed to read response body">>, 0, t.readErr),
                Append(steps, "read"))
    ELSE IF t.StatusCode # StatusOK
    THEN Failed(parseErrorResponse(t.body, t.StatusCode),
                steps \o <<"read", "parseErrorResponse">>)
    ELSE LET r == parseResponse(t.body, "signature_request")
         IN  IF r.err # Nil
             THEN Failed(NewClientError(<<"failed to parse response">>,
                                        t.StatusCode, r.err),
                         steps \o <<"read", "parseResponse">>)
             ELSE Ret(r.payload, r.warnings, Nil,
                      steps \o <<"read", "parseResponse">>)

SendWithTemplateReturn(t, steps) ==
    IF t.doErr # Nil
    THEN Failed(NewClientError(<<"failed to execute request">>, 0, t.doErr), steps)
    ELSE IF t.readErr # Nil
    THEN Failed(NewClientError(<<"failed to read response body">>,
                               t.StatusCode, t.readErr),
                Append(steps, "read"))
    ELSE IF t.StatusCode # StatusOK
    THEN Failed(parseErrorResponse(t.body, t.StatusCode),
                steps \o <<"read", "parseErrorResponse">>)
    ELSE LET r == parseResponse(t.body, "signature_request")
         IN  IF r.err # Nil
             THEN Failed(NewClientError(<<"failed to parse response">>,
                                        t.StatusCode, r.err),
                         steps \o <<"read", "parseResponse">>)
             ELSE Ret(r.payload, r.warnings, Nil,
                      steps \o <<"read", "parseResponse">>)

\* CancelIncompleteSignatureRequest that reports a failed Do with an error
\* of its own making
CancelIncompleteSignatureRequestReturn_OwnDoError(t, steps) ==
    IF t.doErr # Nil
    THEN Failed(NewClientError(<<"failed to execute request">>, 0,
                               ErrorText(<<"request failed">>)), steps)
    ELSE IF t.StatusCode # StatusOK
    THEN IF t.readErr # Nil
         THEN Failed(NewClientError(<<"failed to read error response body">>,
                                    t.StatusCode, t.readErr),
                     Append(steps, "read"))
         ELSE Failed(parseErrorResponse(t.body, t.StatusCode),
                     steps \o <<"read", "parseErrorResponse">>)
    ELSE Failed(Nil, steps)

\* CancelIncompleteSignatureRequest that reads the body before it looks at
\* the status
CancelIncompleteSignatureRequestReturn_ReadsFirst(t, steps) ==
    IF t.doErr # Nil
    THEN Failed(NewClientError(<<"failed to execute request">>, 0, t.doErr), steps)
    ELSE IF t.readErr # Nil
    THEN Failed(NewClientError(<<"failed to read error response body">>,
                               t.StatusCode, t.readErr),
                Append(steps, "read"))
    ELSE IF t.StatusCode # StatusOK
    THEN Failed(parseErrorResponse(t.body, t.StatusCode),
                steps \o <<"read", "parseErrorResponse">>)
    ELSE Failed(Nil, Append(steps, "read"))

\* CancelIncompleteSignatureRequest from the result of Do on: the body is
\* read only when the status is not 200
CancelIncompleteSignatureRequestReturn(t, steps) ==
    IF t.doErr # Nil
    THEN Failed(NewClientError(<<"failed to execute request">>, 0, t.doErr), steps)
    ELSE IF t.StatusCode # StatusOK
    THEN IF t.readErr # Nil
         THEN Failed(NewClientError(<<"failed to read error response body">>,
                                    t.StatusCode, t.readErr),
                     Append(steps, "read"))
         ELSE Failed(parseErrorResponse(t.body, t.StatusCode),
                     steps \o <<"read", "parseErrorResponse">>)
    ELSE Failed(Nil, steps)

Init ==
    /\ client = NewClient("api-key")
    /\ pc = "idle"
    /\ call = NoCall
    /\ resp = NoResp
    /\ ret = NoRet
    /\ goroutines = [g \in Goroutines |-> IdleGoroutine]
    /\ result = NoResult
    /\ config = [made |-> FALSE]
    /\ builder = NoBuilder

\* the call stops before Do with a request that could not be built
BuildFailed(op, ctx, err, steps) ==
    /\ pc' = "idle"
    /\ call' = [op |-> op, ctx |-> ctx, req |-> NoRequest]
    /\ ret' = Failed(NewClientError(<<"failed to create request">>, 0, err), steps)

\* the call hands req to httpClient.Do
Dispatch(op, ctx, req) ==
    /\ pc' = "do"
    /\ call' = [op |-> op, ctx |-> ctx, req |-> req]
    /\ ret' = [NoRet EXCEPT !.steps = <<"build", "auth", "dispatch">>]

GetSignatureRequest(ctx, signatureRequestID) ==
    /\ pc = "idle"
    /\ LET url == <<client.baseURL, "/signature_request/", signatureRequestID>>
           req == NewRequestWithContext(ctx, "GET", url, NoBody)
       IN  IF req.err # Nil
           THEN BuildFailed("GetSignatureRequest", ctx, req.err, <<"build">>)
           ELSE Dispatch("GetSignatureRequest", ctx,
                         SetBasicAuth(req.val, client.apiKey, ""))
    /\ resp' = NoResp
    /\ UNCHANGED <<client, goroutines, result, config, builder>>

SendWithTemplate(ctx, request) ==
    /\ pc = "idle"
    /\ LET url == <<client.baseURL, "/signature_request/send_with_template">>
           jsonData == Marshal(request)
           req == NewRequestWithContext(ctx, "POST", url, jsonData.val)
       IN  IF jsonData.err # Nil
           THEN /\ pc' = "idle"
                /\ call' = [op |-> "SendWithTemplate", ctx |-> ctx,
                            req |-> NoRequest]
                /\ ret' = Failed(NewClientError(<<"failed to marshal request">>,
                                                0, jsonData.err), <<"marshal">>)
           ELSE IF req.err # Nil
           THEN BuildFailed("SendWithTemplate", ctx, req.err, <<"build">>)
           ELSE Dispatch("SendWithTemplate", ctx,
                         [SetBasicAuth(req.val, client.apiKey, "")
                             EXCEPT !.ContentType = "application/json"])
    /\ resp' = NoResp
    /\ UNCHANGED <<client, goroutines, result, config, builder>>

CancelIncompleteSignatureRequest(ctx, signatureRequestID) ==
    /\ pc = "idle"
    /\ LET url == <<client.baseURL, "/signature_request/cancel/",
                    signatureRequestID>>
           req == NewRequestWithContext(ctx, "POST", url, NoBody)
       IN  IF req.err # Nil
           THEN BuildFailed("CancelIncompleteSignatureRequest", ctx, req.err,
                            <<"build">>)
           ELSE Dispatch("CancelIncompleteSignatureRequest", ctx,
                         SetBasicAuth(req.val, client.apiKey, ""))
    /\ resp' = NoResp
    /\ UNCHANGED <<client, goroutines, result, config, builder>>

\* Do after which the call has set the client's timeout to zero
Do_ClearsTimeout(t) ==
    /\ pc = "do"
    /\ pc' = "idle"
    /\ resp' = t
    /\ ret' = CASE call.op = "GetSignatureRequest" ->
                      GetSignatureRequestReturn(t, ret.steps)
                [] call.op = "SendWithTemplate" ->
                      SendWithTemplateReturn(t, ret.steps)
                [] call.op = "CancelIncompleteSignatureRequest" ->
                      CancelIncompleteSignatureRequestReturn(t, ret.steps)
    /\ client' = [client EXCEPT !.httpClient.Timeout = 0]
    /\ UNCHANGED <<call, goroutines, result, config, builder>>

\* Do that sends the request a second time when the first attempt failed
Do_RetriesOnce(t) ==
    /\ pc = "do"
    /\ resp' = t
    /\ IF t.doErr # Nil /\ Len(ret.steps) < 4
       THEN /\ pc' = "do"
            /\ ret' = [ret EXCEPT !.steps = Append(ret.steps, "dispatch")]
       ELSE /\ pc' = "idle"
            /\ ret' = CASE call.op = "GetSignatureRequest" ->
                             GetSignatureRequestReturn(t, ret.steps)
                       [] call.op = "SendWithTemplate" ->
                             SendWithTemplateReturn(t, ret.steps)
                       [] call.op = "CancelIncompleteSignatureRequest" ->
                             CancelIncompleteSignatureRequestReturn(t, ret.steps)
    /\ UNCHANGED <<client, call, goroutines, result, config, builder>>

\* httpClient.Do answers with t and the waiting call runs to its return
Do(t) ==
    /\ pc = "do"
    /\ pc' = "idle"
    /\ resp' = t
    /\ ret' = CASE call.op = "GetSignatureRequest" ->
                      GetSignatureRequestReturn(t, ret.steps)
                [] call.op = "SendWithTemplate" ->
                      SendWithTemplateReturn(t, ret.steps)
                [] call.op = "CancelIncompleteSignatureRequest" ->
                      CancelIncompleteSignatureRequestReturn(t, ret.steps)
    /\ UNCHANGED <<client, call, goroutines, result, config, builder>>

Next ==
    \/ \E ctx \in Ctxs, id \in IDs : GetSignatureRequest(ctx, id)
    \/ \E ctx \in Ctxs, request \in Requests : SendWithTemplate(ctx, request)
    \/ \E ctx \in Ctxs, id \in IDs : CancelIncompleteSignatureRequest(ctx, id)
    \/ \E t \in Outcomes(call.ctx) : Do(t)

Spec == Init /\ [][Next]_vars

(***************************************************************************)
(* Goroutines that call the same client.  A goroutine runs a call as the   *)
(* sequential specification does: up to httpClient.Do in one step, from    *)
(* the transport's answer to the return in a second one; the steps of      *)
(* different goroutines interleave.                                        *)
(***************************************************************************)
\* what a goroutine passes to a call: a signature request id or a request
Inputs ==
    {[op |-> op, ctx |-> ctx, arg |-> <<"id", id>>] :
        op \in {"GetSignatureRequest", "CancelIncompleteSignatureRequest"},
        ctx \in {"background", "canceled"}, id \in IDs}
    \cup {[op |-> "SendWithTemplate", ctx |-> ctx, arg |-> <<"request", r>>] :
             ctx \in {"background", "canceled"}, r \in Requests}

\* the transport's answers the goroutines are given, a part of Outcomes: a
\* refused connection, and a 200 or a 404 with text that is not JSON, with
\* a payload and a warning, or with the error envelope
GoBodies ==
    {Invalid("<html>"),
     MkObj([signature_request |->
                MkObj([signature_request_id |-> JStr("abc"),
                       title |-> JStr("T")]),
            warnings |-> JArr(<<W1>>)]),
     MkObj([error |->
                MkObj([error_msg |-> JStr("Signature request not found"),
                       error_name |-> JStr("not_found"),
                       error_path |-> Absent,
                       status |-> Absent])])}
GoOutcomes(ctx) ==
    IF ctx = "canceled" THEN {Outcome(Canceled, 0, NoBody, Nil)}
    ELSE {Outcome(NetErr, 0, NoBody, Nil)}
         \cup {Outcome(Nil, st, b, Nil) :
                  st \in {StatusOK, StatusNotFound}, b \in GoBodies}

\* the request a call builds from the client c and its input, with the
\* credentials of c on it
PrepareRequest(c, in) ==
    LET req ==
            CASE in.op = "GetSignatureRequest" ->
                     NewRequestWithContext(in.ctx, "GET",
                         <<c.baseURL, "/signature_request/", in.arg[2]>>, NoBody)
              [] in.op = "SendWithTemplate" ->
                     NewRequestWithContext(in.ctx, "POST",
                         <<c.baseURL, "/signature_request/send_with_template">>,
                         Marshal(in.arg[2]).val)
              [] in.op = "CancelIncompleteSignatureRequest" ->
                     NewRequestWithContext(in.ctx, "POST",
                         <<c.baseURL, "/signature_request/cancel/", in.arg[2]>>,
                         NoBody)
    IN  IF req.err # Nil THEN req
        ELSE Decoded([SetBasicAuth(req.val, c.apiKey, "")
                         EXCEPT !.ContentType =
                             IF in.op = "SendWithTemplate"
                             THEN "application/json" ELSE @],
                     Nil)

\* the return of the call op from the transport's answer t on
ReturnOf(op, t, steps) ==
    CASE op = "GetSignatureRequest" -> GetSignatureRequestReturn(t, steps)
      [] op = "SendWithTemplate" -> SendWithTemplateReturn(t, steps)
      [] op = "CancelIncompleteSignatureRequest" ->
             CancelIncompleteSignatureRequestReturn(t, steps)

\* a call that builds its URL in the baseURL field of the client
GoCall_BuildsURLInClient(g, in) ==
    /\ goroutines[g].pc = "idle"
    /\ LET r == PrepareRequest(client, in)
       IN  /\ goroutines' =
                  [goroutines EXCEPT ![g] =
                      IF r.err # Nil
                      THEN [pc |-> "idle", in |-> in, req |-> NoRequest,
                            resp |-> NoResp,
                            ret |-> Failed(NewClientError(
                                               <<"failed to create request">>,
                                               0, r.err), <<"build">>)]
                      ELSE [pc |-> "do", in |-> in, req |-> r.val,
                            resp |-> NoResp,
                            ret |-> [NoRet EXCEPT !.steps =
                                        <<"build", "auth", "dispatch">>]]]
           /\ client' = IF r.err # Nil THEN client
                        ELSE [client EXCEPT !.baseURL = r.val.URL[2]]
    /\ UNCHANGED <<pc, call, resp, ret, result, config, builder>>

\* goroutine g starts a call on the client and runs it up to httpClient.Do
GoCall(g, in) ==
    /\ goroutines[g].pc = "idle"
    /\ LET r == PrepareRequest(client, in)
       IN  goroutines' =
               [goroutines EXCEPT ![g] =
                   IF r.err # Nil
                   THEN [pc |-> "idle", in |-> in, req |-> NoRequest,
                         resp |-> NoResp,
                         ret |-> Failed(NewClientError(
                                            <<"failed to create request">>,
                                            0, r.err), <<"build">>)]
                   ELSE [pc |-> "do", in |-> in, req |-> r.val,
                         resp |-> NoResp,
                         ret |-> [NoRet EXCEPT !.steps =
                                     <<"build", "auth", "dispatch">>]]]
    /\ UNCHANGED <<client, pc, call, resp, ret, result, config, builder>>

\* Do under a lock: the answer is taken only while no other goroutine is in
\* a call
GoDo_WaitsForOthers(g, t) ==
    /\ goroutines[g].pc = "do"
    /\ \A h \in Goroutines \ {g} : goroutines[h].pc = "idle"
    /\ t \in GoOutcomes(goroutines[g].in.ctx)
    /\ LET my == goroutines[g]
       IN  goroutines' =
               [goroutines EXCEPT ![g] =
                   [my EXCEPT !.pc = "idle", !.resp = t,
                              !.ret = ReturnOf(my.in.op, t, my.ret.steps)]]
    /\ UNCHANGED <<client, pc, call, resp, ret, result, config, builder>>

\* httpClient.Do answers goroutine g with t and its call runs to the return
GoDo(g, t) ==
    /\ goroutines[g].pc = "do"
    /\ t \in GoOutcomes(goroutines[g].in.ctx)
    /\ LET my == goroutines[g]
       IN  goroutines' =
               [goroutines EXCEPT ![g] =
                   [my EXCEPT !.pc = "idle", !.resp = t,
                              !.ret = ReturnOf(my.in.op, t, my.ret.steps)]]
    /\ UNCHANGED <<client, pc, call, resp, ret, result, config, builder>>

NextConc ==
    \/ \E g \in Goroutines, in \in Inputs : GoCall(g, in)
    \/ \E g \in Goroutines :
           \E t \in GoOutcomes("background") \cup GoOutcomes("canceled") :
               GoDo(g, t)

SpecConc == Init /\ [][NextConc]_vars

\* The calls whose return is followed to the end: one input for each
\* operation and context, and of the transport's answers a refused
\* connection, a cancellation, a 200 with a payload and a 404 with the
\* error envelope.
LiveInputs ==
    {in \in Inputs :
        \/ in.arg[1] = "id" /\ in.arg[2] = "sig-1"
        \/ in.arg[1] = "request" /\ ~in.arg[2].Title.ptr}
LiveOutcomes ==
    {t \in GoOutcomes("background") \cup GoOutcomes("canceled") :
        \/ t.doErr # Nil
        \/ t.StatusCode = StatusOK /\ Has(t.body, "signature_request")
        \/ t.StatusCode = StatusNotFound /\ Has(t.body, "error")}

NextLive ==
    \/ \E g \in Goroutines, in \in LiveInputs : GoCall(g, in)
    \/ \E g \in Goroutines : \E t \in LiveOutcomes : GoDo(g, t)

\* the transport answers every request in the end, with a response or with
\* an error (of the network, or of the context that is done): the step in
\* which a goroutine takes the answer is weakly fair
SpecLive ==
    /\ Init /\ [][NextLive]_vars
    /\ \A g \in Goroutines : WF_vars(\E t \in LiveOutcomes : GoDo(g, t))

(***************************************************************************)
(* Functions on values: ErrorResponseError.Error, ParseSignerStatus and    *)
(* SignerStatus.UnmarshalJSON.  A status string is the sequence of its     *)
(* characters.                                                             *)
(***************************************************************************)
\* ErrorResponseError.Error that prints every path that is not nil
ErrorResponseErrorString_AnyPath(e) ==
    IF e.ErrorPath.ptr
    THEN <<e.ErrorName, " (", e.ErrorPath.v, "): ", e.ErrorMsg>>
    ELSE <<e.ErrorName, ": ", e.ErrorMsg>>

\* ErrorResponseError.Error
ErrorResponseErrorString(e) ==
    IF e.ErrorPath.ptr /\ e.ErrorPath.v # ""
    THEN <<e.ErrorName, " (", e.ErrorPath.v, "): ", e.ErrorMsg>>
    ELSE <<e.ErrorName, ": ", e.ErrorMsg>>

\* the values of type SignerStatus
SignerStatusSuccess == <<"s", "u", "c", "c", "e", "s", "s">>
SignerStatusOnHold == <<"o", "n", "_", "h", "o", "l", "d">>
SignerStatusSigned == <<"s", "i", "g", "n", "e", "d">>
SignerStatusAwaitingSignature == <<"a", "w", "a", "i", "t", "i", "n", "g",
    "_", "s", "i", "g", "n", "a", "t", "u", "r", "e">>
SignerStatusDeclined == <<"d", "e", "c", "l", "i", "n", "e", "d">>
SignerStatusErrorUnknown == <<"e", "r", "r", "o", "r", "_", "u", "n", "k",
    "n", "o", "w", "n">>
SignerStatusErrorFile == <<"e", "r", "r", "o", "r", "_", "f", "i", "l", "e">>
SignerStatusErrorComponentPosition == <<"e", "r", "r", "o", "r", "_", "c",
    "o", "m", "p", "o", "n", "e", "n", "t", "_", "p", "o", "s", "i", "t",
    "i", "o", "n">>
SignerStatusErrorTextTag == <<"e", "r", "r", "o", "r", "_", "t", "e", "x",
    "t", "_", "t", "a", "g">>
SignerStatusOnHoldByRequester == <<"o", "n", "_", "h", "o", "l", "d", "_",
    "b", "y", "_", "r", "e", "q", "u", "e", "s", "t", "e", "r">>
SignerStatusErrorInvalidEmail == <<"e", "r", "r", "o", "r", "_", "i", "n",
    "v", "a", "l", "i", "d", "_", "e", "m", "a", "i", "l">>
SignerStatusExpired == <<"e", "x", "p", "i", "r", "e", "d">>
SignerStatusUnknownEnum == <<"u", "n", "k", "n", "o", "w", "n", "_", "e",
    "n", "u", "m">>

\* the letters strings.ToLower changes, with their lower-case letters; the
\* last one is the Kelvin sign U+212A, whose lower case is the letter k
UpperLetters ==
    <<"A", "B", "C", "D", "E", "F", "G", "H", "I", "J", "K", "L", "M", "N",
      "O", "P", "Q", "R", "S", "T", "U", "V", "W", "X", "Y", "Z", "U+212A">>
LowerLetters ==
    <<"a", "b", "c", "d", "e", "f", "g", "h", "i", "j", "k", "l", "m", "n",
      "o", "p", "q", "r", "s", "t", "u", "v", "w", "x", "y", "z", "k">>
\* characters strings.TrimSpace takes for white space: space, tab, line
\* feed, carriage return and the no-break space U+00A0
WhiteSpace == {" ", "\t", "\n", "\r", "U+00A0"}

\* strings.ToLower
ToLower(s) ==
    [i \in DOMAIN s |->
        IF \E j \in DOMAIN UpperLetters : UpperLetters[j] = s[i]
        THEN LowerLetters[CHOOSE j \in DOMAIN UpperLetters : UpperLetters[j] = s[i]]
        ELSE s[i]]

\* strings.TrimSpace
TrimSpace(s) ==
    LET keep == {i \in DOMAIN s : s[i] \notin WhiteSpace}
    IN  IF keep = {} THEN <<>>
        ELSE LET first == CHOOSE i \in keep : \A j \in keep : i <= j
                 last == CHOOSE i \in keep : \A j \in keep : j <= i
             IN  SubSeq(s, first, last)

\* ParseSignerStatus without strings.ToLower
ParseSignerStatus_CaseSensitive(s) ==
    LET t == TrimSpace(s)
    IN  CASE t = <<"s", "u", "c", "c", "e", "s", "s">> -> SignerStatusSuccess
          [] t = <<"o", "n", "_", "h", "o", "l", "d">> ->
                 SignerStatusOnHold
          [] t = <<"s", "i", "g", "n", "e", "d">> ->
                 SignerStatusSigned
          [] t = <<"a", "w", "a", "i", "t", "i", "n", "g", "_", "s", "i",
                 "g", "n", "a", "t", "u", "r", "e">> ->
                 SignerStatusAwaitingSignature
          [] t = <<"d", "e", "c", "l", "i", "n", "e", "d">> ->
                 SignerStatusDeclined
          [] t = <<"e", "r", "r", "o", "r", "_", "u", "n", "k", "n", "o",
                 "w", "n">> ->
                 SignerStatusErrorUnknown
          [] t = <<"e", "r", "r", "o", "r", "_", "f", "i", "l", "e">> ->
                 SignerStatusErrorFile
          [] t = <<"e", "r", "r", "o", "r", "_", "c", "o", "m", "p", "o",
                 "n", "e", "n", "t", "_", "p", "o", "s", "i", "t", "i", "o",
                 "n">> ->
                 SignerStatusErrorComponentPosition
          [] t = <<"e", "r", "r", "o", "r", "_", "t", "e", "x", "t", "_",
                 "t", "a", "g">> ->
                 SignerStatusErrorTextTag
          [] t = <<"o", "n", "_", "h", "o", "l", "d", "_", "b", "y", "_",
                 "r", "e", "q", "u", "e", "s", "t", "e", "r">> ->
                 SignerStatusOnHoldByRequester
          [] t = <<"e", "r", "r", "o", "r", "_", "i", "n", "v", "a", "l",
                 "i", "d", "_", "e", "m", "a", "i", "l">> ->
                 SignerStatusErrorInvalidEmail
          [] t = <<"e", "x", "p", "i", "r", "e", "d">> ->
                 SignerStatusExpired
          [] OTHER -> SignerStatusUnknownEnum

\* ParseSignerStatus
ParseSignerStatus(s) ==
    LET t == TrimSpace(ToLower(s))
    IN  CASE t = <<"s", "u", "c", "c", "e", "s", "s">> -> SignerStatusSuccess
          [] t = <<"o", "n", "_", "h", "o", "l", "d">> ->
                 SignerStatusOnHold
          [] t = <<"s", "i", "g", "n", "e", "d">> ->
                 SignerStatusSigned
          [] t = <<"a", "w", "a", "i", "t", "i", "n", "g", "_", "s", "i",
                 "g", "n", "a", "t", "u", "r", "e">> ->
                 SignerStatusAwaitingSignature
          [] t = <<"d", "e", "c", "l", "i", "n", "e", "d">> ->
                 SignerStatusDeclined
          [] t = <<"e", "r", "r", "o", "r", "_", "u", "n", "k", "n", "o",
                 "w", "n">> ->
                 SignerStatusErrorUnknown
          [] t = <<"e", "r", "r", "o", "r", "_", "f", "i", "l", "e">> ->
                 SignerStatusErrorFile
          [] t = <<"e", "r", "r", "o", "r", "_", "c", "o", "m", "p", "o",
                 "n", "e", "n", "t", "_", "p", "o", "s", "i", "t", "i", "o",
                 "n">> ->
                 SignerStatusErrorComponentPosition
          [] t = <<"e", "r", "r", "o", "r", "_", "t", "e", "x", "t", "_",
                 "t", "a", "g">> ->
                 SignerStatusErrorTextTag
          [] t = <<"o", "n", "_", "h", "o", "l", "d", "_", "b", "y", "_",
                 "r", "e", "q", "u", "e", "s", "t", "e", "r">> ->
                 SignerStatusOnHoldByRequester
          [] t = <<"e", "r", "r", "o", "r", "_", "i", "n", "v", "a", "l",
                 "i", "d", "_", "e", "m", "a", "i", "l">> ->
                 SignerStatusErrorInvalidEmail
          [] t = <<"e", "x", "p", "i", "r", "e", "d">> ->
                 SignerStatusExpired
          [] OTHER -> SignerStatusUnknownEnum

\* (*SignerStatus).UnmarshalJSON on the receiver with value cur: the data
\* goes through json.Unmarshal into a string, and the receiver is set only
\* when that reports no error
UnmarshalJSON(cur, data) ==
    LET str == IF Tag(data) = "invalid" THEN Decoded(<<>>, SyntaxError)
               ELSE DecodeString(data, <<>>)
    IN  IF str.err # Nil THEN Decoded(cur, str.err)
        ELSE Decoded(ParseSignerStatus(str.val), Nil)

\* the values the functions are called on
APIErrors ==
    {[kind |-> "ErrorResponseError", Status |-> st, ErrorMsg |-> m,
      ErrorPath |-> p, ErrorName |-> n] :
        st \in {0, StatusBadRequest, StatusNotFound},
        m \in {"", "Signature request not found"},
        p \in {NilPtr, Ptr(""), Ptr("signers[0].email_address")},
        n \in {"not_found", "bad_request"}}

SignerStatuses ==
    {SignerStatusSuccess, SignerStatusOnHold, SignerStatusSigned,
     SignerStatusAwaitingSignature, SignerStatusDeclined,
     SignerStatusErrorUnknown, SignerStatusErrorFile,
     SignerStatusErrorComponentPosition, SignerStatusErrorTextTag,
     SignerStatusOnHoldByRequester, SignerStatusErrorInvalidEmail,
     SignerStatusExpired, SignerStatusUnknownEnum}
\* s in capital letters, and with the Kelvin sign for each k
ToUpper(s) ==
    [i \in DOMAIN s |->
        IF \E j \in 1..26 : LowerLetters[j] = s[i]
        THEN UpperLetters[CHOOSE j \in 1..26 : LowerLetters[j] = s[i]]
        ELSE s[i]]
WithKelvin(s) == [i \in DOMAIN s |-> IF s[i] = "k" THEN "U+212A" ELSE s[i]]
\* the statuses and some strings that are none, as they are, in capitals,
\* with white space around them, with white space or a letter inside
StatusWords ==
    SignerStatuses
        \cup {<<>>, <<" ">>, <<"b", "o", "g", "u", "s">>,
              <<"o", "n", " ", "h", "o", "l", "d">>,
              <<"s", "i", "g", "n", "e", "d", "x">>}
StatusStrings ==
    UNION {{w, ToUpper(w), WithKelvin(w),
            <<" ">> \o w, w \o <<"\n">>,
            <<"\t", "U+00A0">> \o ToUpper(w) \o <<"\r", " ">>,
            IF Len(w) > 1 THEN <<w[1], " ">> \o Tail(w) ELSE w} :
              w \in StatusWords}
StatusData ==
    {JStr(s) : s \in StatusStrings}
        \cup {JNull, JNum(1), JBool(TRUE), JArr(<<>>), MkObj(<<>>),
              Invalid("awaiting_signature")}

\* a program calls Error on an API error
ErrorCall(e) ==
    /\ result' = [fn |-> "Error", in |-> e, out |-> ErrorResponseErrorString(e)]
    /\ UNCHANGED <<client, pc, call, resp, ret, goroutines, config, builder>>

\* a program parses a status string
ParseSignerStatusCall(s) ==
    /\ result' = [fn |-> "ParseSignerStatus", in |-> s,
                  out |-> ParseSignerStatus(s)]
    /\ UNCHANGED <<client, pc, call, resp, ret, goroutines, config, builder>>

\* a status that holds cur is decoded from data
UnmarshalJSONCall(cur, data) ==
    /\ result' = [fn |-> "UnmarshalJSON", in |-> <<cur, data>>,
                  out |-> UnmarshalJSON(cur, data)]
    /\ UNCHANGED <<client, pc, call, resp, ret, goroutines, config, builder>>

NextValues ==
    \/ \E e \in APIErrors : ErrorCall(e)
    \/ \E s \in StatusStrings : ParseSignerStatusCall(s)
    \/ \E cur \in {SignerStatusSigned, SignerStatusUnknownEnum},
          data \in StatusData : UnmarshalJSONCall(cur, data)

SpecValues == Init /\ [][NextValues]_vars

(***************************************************************************)
(* The configuration of a client.  The Client c holds a pointer to its     *)
(* http.Client: config.c.httpClient is the address ("own" for the one      *)
(* NewClient made, "custom" for one of the program, "nil") and config.heap *)
(* holds the http.Client objects.  config.last tells the last call, its    *)
(* arguments and the Client it returned ("c" for the receiver).            *)
(***************************************************************************)
Last(op, str, timeout, returned, panicked) ==
    [op |-> op, str |-> str, timeout |-> timeout, returned |-> returned,
     panicked |-> panicked]

\* the program makes a client: c := NewClient(apiKey); it also has an
\* http.Client of its own, at the address "custom"
NewClientCall(apiKey) ==
    /\ config' = [made |-> TRUE,
                  c |-> [NewClient(apiKey) EXCEPT !.httpClient = "own"],
                  heap |-> [own |-> NewClient(apiKey).httpClient,
                            custom |-> [Timeout |-> 5,
                                       Transport |-> [MaxIdleConns |-> 1,
                                                      MaxIdleConnsPerHost |-> 1,
                                                      IdleConnTimeout |-> 1]]],
                  last |-> Last("NewClient", apiKey, 0, "c", FALSE),
                  wantURL |-> APIBaseURL,
                  req |-> NoRequest]
    /\ UNCHANGED <<client, pc, call, resp, ret, goroutines, result, builder>>

\* c.WithTimeout(timeout): the write goes through the pointer c.httpClient,
\* and panics when that is nil
WithTimeout(timeout) ==
    /\ config.made /\ ~config.last.panicked
    /\ config' =
           IF config.c.httpClient = "nil"
           THEN [config EXCEPT
                    !.last = Last("WithTimeout", "", timeout, "none", TRUE)]
           ELSE [config EXCEPT
                    !.heap[config.c.httpClient].Timeout = timeout,
                    !.last = Last("WithTimeout", "", timeout, "c", FALSE)]
    /\ UNCHANGED <<client, pc, call, resp, ret, goroutines, result, builder>>

\* WithHTTPClient that gives the new http.Client the timeout of the old one
WithHTTPClient_KeepsTimeout(httpClient) ==
    /\ config.made /\ ~config.last.panicked
    /\ config' =
           IF httpClient = "nil" \/ config.c.httpClient = "nil"
           THEN [config EXCEPT
                    !.c.httpClient = httpClient,
                    !.last = Last("WithHTTPClient", httpClient, 0, "c", FALSE)]
           ELSE [config EXCEPT
                    !.c.httpClient = httpClient,
                    !.heap[httpClient].Timeout =
                        config.heap[config.c.httpClient].Timeout,
                    !.last = Last("WithHTTPClient", httpClient, 0, "c", FALSE)]
    /\ UNCHANGED <<client, pc, call, resp, ret, goroutines, result, builder>>

\* c.WithHTTPClient(httpClient)
WithHTTPClient(httpClient) ==
    /\ config.made /\ ~config.last.panicked
    /\ config' = [config EXCEPT
                     !.c.httpClient = httpClient,
                     !.last = Last("WithHTTPClient", httpClient, 0, "c", FALSE)]
    /\ UNCHANGED <<client, pc, call, resp, ret, goroutines, result, builder>>

\* c.WithBaseURL(baseURL)
WithBaseURL(baseURL) ==
    /\ config.made /\ ~config.last.panicked
    /\ config' = [config EXCEPT
                     !.c.baseURL = baseURL,
                     !.wantURL = baseURL,
                     !.last = Last("WithBaseURL", baseURL, 0, "c", FALSE)]
    /\ UNCHANGED <<client, pc, call, resp, ret, goroutines, result, builder>>

\* a call on the configured client, up to httpClient.Do, which panics on
\* the nil http.Client; config.req is the request that Do was given
Call(in) ==
    /\ config.made /\ ~config.last.panicked
    /\ LET r == PrepareRequest(config.c, in)
       IN  config' =
               IF r.err # Nil
               THEN [config EXCEPT !.req = NoRequest,
                                   !.last = Last("call", in.op, 0, "none", FALSE)]
               ELSE [config EXCEPT
                        !.req = r.val,
                        !.last = Last("call", in.op, 0, "none",
                                      config.c.httpClient = "nil")]
    /\ UNCHANGED <<client, pc, call, resp, ret, goroutines, result, builder>>

NextConfig ==
    \/ \E apiKey \in {"test-api-key", "key-2"} : NewClientCall(apiKey)
    \/ \E timeout \in {0, 60} : WithTimeout(timeout)
    \/ \E httpClient \in {"custom", "nil"} : WithHTTPClient(httpClient)
    \/ \E baseURL \in {"https://custom.api.com", "https://test.api.com/v3"} :
          WithBaseURL(baseURL)
    \/ \E in \in {i \in LiveInputs : i.ctx = "background"} : Call(in)

SpecConfig == Init /\ [][NextConfig]_vars

(***************************************************************************)
(* Building a request.  The program makes a signer, a custom field and     *)
(* the signing options, in this order, calls setters on the signer and     *)
(* the field, makes the request, calls setters on it and sends it once;    *)
(* it calls setters on the signing options at any time, and MaxSetterCalls *)
(* setters at most.                                                        *)
(***************************************************************************)
CanCall == ~builder.sent /\ Len(builder.calls) < MaxSetterCalls

\* signer := NewSubSignatureRequestTemplateSigner(role, name, emailAddress)
NewSubSignatureRequestTemplateSignerCall(role, name, emailAddress) ==
    /\ ~builder.signerMade
    /\ builder' = [builder EXCEPT
            !.signerMade = TRUE,
            !.signer = NewSubSignatureRequestTemplateSigner(role, name, emailAddress),
            !.signerRet = NewSubSignatureRequestTemplateSigner(role, name, emailAddress)]
    /\ UNCHANGED <<client, pc, call, resp, ret, goroutines, result, config>>

\* field := NewSubCustomField(name)
NewSubCustomFieldCall(name) ==
    /\ builder.signerMade /\ ~builder.fieldMade
    /\ builder' = [builder EXCEPT
            !.fieldMade = TRUE,
            !.field = NewSubCustomField(name),
            !.fieldRet = NewSubCustomField(name)]
    /\ UNCHANGED <<client, pc, call, resp, ret, goroutines, result, config>>

\* opts := NewSubSigningOptions(defaultType)
NewSubSigningOptionsCall(defaultType) ==
    /\ builder.fieldMade /\ ~builder.optsMade
    /\ builder' = [builder EXCEPT
            !.optsMade = TRUE,
            !.opts = NewSubSigningOptions(defaultType)]
    /\ UNCHANGED <<client, pc, call, resp, ret, goroutines, result, config>>

\* s := NewSendSignatureRequest(signers, templateIDs)
NewSendSignatureRequestCall(signers, templateIDs) ==
    /\ builder.optsMade /\ ~builder.sMade
    /\ builder' = [builder EXCEPT
            !.sMade = TRUE,
            !.s = [NewSendSignatureRequest(signers, templateIDs) EXCEPT
                      !.SigningOptions = NilPtr]]
    /\ UNCHANGED <<client, pc, call, resp, ret, goroutines, result, config>>

\* a setter of *SendSignatureRequest or *SubSigningOptions, called on the
\* pointer obj: s.f = v; return s
SetPointerField(op, obj, f, arg, v) ==
    /\ IF obj = "s" THEN builder.sMade ELSE builder.optsMade
    /\ CanCall
    /\ builder' = [builder EXCEPT
            ![obj][f] = v,
            !.calls = Append(@, <<op, obj, arg, obj>>)]
    /\ UNCHANGED <<client, pc, call, resp, ret, goroutines, result, config>>

WithAllowDecline(allowDecline) ==
    SetPointerField("WithAllowDecline", "s", "AllowDecline", allowDecline,
                    BoolPtr(allowDecline))
WithCCs(ccs) == SetPointerField("WithCCs", "s", "CCs", ccs, ccs)
WithClientID(clientID) ==
    SetPointerField("WithClientID", "s", "ClientID", clientID, Ptr(clientID))
WithCustomFields(customFields) ==
    SetPointerField("WithCustomFields", "s", "CustomFields", customFields,
                    customFields)
WithFiles(files) == SetPointerField("WithFiles", "s", "Files", files, files)
WithFileURLs(fileURLs) ==
    SetPointerField("WithFileURLs", "s", "FileURLs", fileURLs, fileURLs)
WithIsEID(isEID) ==
    SetPointerField("WithIsEID", "s", "IsEID", isEID, BoolPtr(isEID))
WithMessage(message) ==
    SetPointerField("WithMessage", "s", "Message", message, Ptr(message))
WithMetadata(metadata) ==
    SetPointerField("WithMetadata", "s", "Metadata", metadata, metadata)
WithSigningOptions(signingOptions) ==
    SetPointerField("WithSigningOptions", "s", "SigningOptions", signingOptions,
                    signingOptions)
WithSigningRedirectURL(signingRedirectURL) ==
    SetPointerField("WithSigningRedirectURL", "s", "SigningRedirectURL",
                    signingRedirectURL, Ptr(signingRedirectURL))
WithTestMode(testMode) ==
    SetPointerField("WithTestMode", "s", "TestMode", testMode, BoolPtr(testMode))
WithTitle(title) ==
    SetPointerField("WithTitle", "s", "Title", title, Ptr(title))

\* a setter of SubSignatureRequestTemplateSigner or SubCustomField, called
\* on the variable recv: the receiver s is a copy of it; s.f = v; return s.
\* The program keeps what is returned in the variable kept.
SetValueField(op, recv, kept, f, arg, v) ==
    /\ builder.optsMade /\ ~builder.sMade /\ CanCall
    /\ builder' = [builder EXCEPT
            ![kept] = [builder[recv] EXCEPT ![f] = v],
            !.calls = Append(@, <<op, recv, arg, "copy">>)]
    /\ UNCHANGED <<client, pc, call, resp, ret, goroutines, result, config>>

\* WithPin with a pointer receiver: it writes to the variable it is
\* called on
WithPin_InPlace(recv, pin) ==
    /\ builder.optsMade /\ ~builder.sMade /\ CanCall
    /\ builder' = [builder EXCEPT
            ![recv] = [builder[recv] EXCEPT !.Pin = Ptr(pin)],
            !.signerRet = [builder[recv] EXCEPT !.Pin = Ptr(pin)],
            !.calls = Append(@, <<"WithPin", recv, pin, "copy">>)]
    /\ UNCHANGED <<client, pc, call, resp, ret, goroutines, result, config>>

WithPin(recv, pin) ==
    SetValueField("WithPin", recv, "signerRet", "Pin", pin, Ptr(pin))
WithSMSPhoneNumber(recv, smsPhoneNumber) ==
    SetValueField("WithSMSPhoneNumber", recv, "signerRet", "SMSPhoneNumber",
                   smsPhoneNumber, Ptr(smsPhoneNumber))
WithSMSPhoneNumberType(recv, smsPhoneNumberType) ==
    SetValueField("WithSMSPhoneNumberType", recv, "signerRet", "SMSPhoneNumberType",
                   smsPhoneNumberType, Ptr(smsPhoneNumberType))

WithEditor(recv, editor) ==
    SetValueField("WithEditor", recv, "fieldRet", "Editor", editor, Ptr(editor))
WithRequired(recv, required) ==
    SetValueField("WithRequired", recv, "fieldRet", "Required", required,
                        BoolPtr(required))
WithValue(recv, value) ==
    SetValueField("WithValue", recv, "fieldRet", "Value", value, Ptr(value))

WithDraw(draw) ==
    SetPointerField("WithDraw", "opts", "Draw", draw, BoolPtr(draw))
WithPhone(phone) ==
    SetPointerField("WithPhone", "opts", "Phone", phone, BoolPtr(phone))
WithType(typeEnabled) ==
    SetPointerField("WithType", "opts", "Type", typeEnabled,
                    BoolPtr(typeEnabled))
WithUpload(upload) ==
    SetPointerField("WithUpload", "opts", "Upload", upload, BoolPtr(upload))

\* the request json.Marshal is given: s with what s.SigningOptions points to
Pointed(b) ==
    [b.s EXCEPT !.SigningOptions =
        IF b.s.SigningOptions.ptr THEN [ptr |-> TRUE, v |-> b.opts]
        ELSE [ptr |-> FALSE, v |-> NewSubSigningOptions("")]]

\* client.SendWithTemplate(ctx, s), up to httpClient.Do: builder.body is
\* the body of the request that Do is given
SendBuilt ==
    /\ builder.sMade /\ ~builder.sent
    /\ LET r == PrepareRequest(NewClient("api-key"),
                    [op |-> "SendWithTemplate", ctx |-> "background",
                     arg |-> <<"request", Pointed(builder)>>])
       IN  builder' = [builder EXCEPT !.sent = TRUE, !.body = r.val.Body]
    /\ UNCHANGED <<client, pc, call, resp, ret, goroutines, result, config>>

\* the variables that hold a signer and a custom field
SignerVars == {"signer", "signerRet"}
FieldVars == {"field", "fieldRet"}

NextBuilder ==
    \/ NewSubSignatureRequestTemplateSignerCall("Signer", "John Doe",
                                                "john@example.com")
    \/ NewSubCustomFieldCall("Cost")
    \/ \E defaultType \in {"draw", "type"} :
          NewSubSigningOptionsCall(defaultType)
    \/ \E signers \in {NilSlice, Slice(<<builder.signerRet>>)} :
          NewSendSignatureRequestCall(
              signers,
              IF signers.isNil THEN NilSlice ELSE Slice(<<"template-id">>))
    \/ \E allowDecline \in BOOLEAN : WithAllowDecline(allowDecline)
    \/ \E ccs \in {NilSlice, Slice(<<>>),
                     Slice(<<[Role |-> "Manager",
                              Email |-> "manager@example.com"]>>)} :
          WithCCs(ccs)
    \/ WithClientID("client-id")
    \/ \E customFields \in {Slice(<<>>), Slice(<<builder.fieldRet>>)} :
          WithCustomFields(customFields)
    \/ \E files \in {Slice(<<>>), Slice(<<"%PDF">>)} : WithFiles(files)
    \/ \E fileURLs \in {Slice(<<>>), Slice(<<"https://example.com/a.pdf">>)} :
          WithFileURLs(fileURLs)
    \/ \E isEID \in BOOLEAN : WithIsEID(isEID)
    \/ WithMessage("Please sign")
    \/ \E metadata \in {NilStringMap, Map(<<>>), Map(<< <<"order", "42">> >>)} :
          WithMetadata(metadata)
    \/ \E signingOptions \in {NilPtr, Ptr("opts")} :
          WithSigningOptions(signingOptions)
    \/ WithSigningRedirectURL("https://example.com/done")
    \/ \E testMode \in BOOLEAN : WithTestMode(testMode)
    \/ \E title \in {"", "Contract", "caf<E9>"} : WithTitle(title)
    \/ \E recv \in SignerVars, pin \in {"", "1234"} : WithPin(recv, pin)
    \/ \E recv \in SignerVars : WithSMSPhoneNumber(recv, "+14155550100")
    \/ \E recv \in SignerVars,
          smsPhoneNumberType \in {"authentication", "delivery"} :
          WithSMSPhoneNumberType(recv, smsPhoneNumberType)
    \/ \E recv \in FieldVars : WithEditor(recv, "Signer")
    \/ \E recv \in FieldVars, required \in BOOLEAN : WithRequired(recv, required)
    \/ \E recv \in FieldVars : WithValue(recv, "100")
    \/ \E draw \in BOOLEAN : WithDraw(draw)
    \/ \E phone \in BOOLEAN : WithPhone(phone)
    \/ \E typeEnabled \in BOOLEAN : WithType(typeEnabled)
    \/ \E upload \in BOOLEAN : WithUpload(upload)
    \/ SendBuilt

SpecBuilder == Init /\ [][NextBuilder]_vars

(***************************************************************************)
(* Vocabulary of the properties                                            *)
(***************************************************************************)
Range(s) == {s[i] : i \in DOMAIN s}

\* a call has returned
Returned == pc = "idle" /\ call.op # "none"
\* ... after the transport delivered a response whose body could be read
ReceivedResponse ==
    Returned /\ resp.StatusCode \in Statuses /\ resp.doErr = Nil
             /\ resp.readErr = Nil
PayloadCall == call.op \in {"GetSignatureRequest", "SendWithTemplate"}

Is2xx(st) == st >= 200 /\ st < 300
Classified == "parseErrorResponse" \in Range(ret.steps)
ParsedAsSuccess == "parseResponse" \in Range(ret.steps)
OnSuccessPath ==
    IF PayloadCall THEN ParsedAsSuccess ELSE ~Classified /\ ret.err = Nil

\* the documented error envelope { error: { error_msg, error_name, error_path? } }
IsStr(o, k) == Has(o, k) /\ Tag(Member(o, k)) = "string"
IsErrorEnvelope(b) ==
    /\ Has(b, "error")
    /\ LET e == Member(b, "error")
       IN  /\ Tag(e) = "object"
           /\ IsStr(e, "error_msg")
           /\ IsStr(e, "error_name")
           /\ Has(e, "error_path") => IsStr(e, "error_path")

\* a payload value that fits SignatureRequestResponse, and the payload it holds
DecodablePayload(v) ==
    \/ Tag(v) = "null"
    \/ /\ Tag(v) = "object"
       /\ \A k \in {"signature_request_id", "title"} :
              Has(v, k) => Tag(Member(v, k)) \in {"string", "null"}
StrOf(o, k) == IF IsStr(o, k) THEN Member(o, k)[2] ELSE ""
PayloadOf(v) ==
    [SignatureRequestID |-> StrOf(v, "signature_request_id"),
     Title |-> StrOf(v, "title")]

\* an array of warning objects, each with its two string members
IsWarningArray(w) ==
    /\ Tag(w) = "array"
    /\ \A i \in DOMAIN w[2] :
           /\ Tag(w[2][i]) = "object"
           /\ IsStr(w[2][i], "warning_msg")
           /\ IsStr(w[2][i], "warning_name")
\* what encoding/json takes for a []WarningResponse: null, or an array whose
\* elements are null or objects whose warning members, if any, are strings
\* or null
DecodableWarnings(w) ==
    \/ Tag(w) = "null"
    \/ /\ Tag(w) = "array"
       /\ \A i \in DOMAIN w[2] :
              \/ Tag(w[2][i]) = "null"
              \/ /\ Tag(w[2][i]) = "object"
                 /\ \A k \in {"warning_msg", "warning_name"} :
                        Has(w[2][i], k) =>
                            Tag(Member(w[2][i], k)) \in {"string", "null"}

\* a 200 response to GetSignatureRequest or SendWithTemplate whose body
\* holds a decodable payload under the key
GoodPayloadResponse ==
    /\ ReceivedResponse /\ PayloadCall /\ ParsedAsSuccess
    /\ Has(resp.body, "signature_request")
    /\ DecodablePayload(Member(resp.body, "signature_request"))

(***************************************************************************)
(* Properties                                                              *)
(***************************************************************************)

\* C1: a received response is handled on the success path exactly when its
\* status is in the 2xx range, and is handed to parseErrorResponse exactly
\* when its status is outside it.
C1_SuccessPathIff2xx ==
    ReceivedResponse =>
        /\ OnSuccessPath <=> Is2xx(resp.StatusCode)
        /\ Classified <=> ~Is2xx(resp.StatusCode)

\* C2: a non-success response whose body is the error envelope
\* {error:{error_msg, error_name, error_path?}} makes the call return an
\* ErrorResponseError whose Status is the HTTP status of the response and
\* whose ErrorMsg, ErrorName and ErrorPath are the members of the body.
C2_StructuredErrorFromEnvelope ==
    (ReceivedResponse /\ ~Is2xx(resp.StatusCode) /\ IsErrorEnvelope(resp.body)) =>
        LET e == Member(resp.body, "error")
        IN  /\ ret.err.kind = "ErrorResponseError"
            /\ ret.err.Status = resp.StatusCode
            /\ ret.err.ErrorMsg = Member(e, "error_msg")[2]
            /\ ret.err.ErrorName = Member(e, "error_name")[2]
            /\ ret.err.ErrorPath = IF Has(e, "error_path")
                                   THEN Ptr(Member(e, "error_path")[2])
                                   ELSE NilPtr

\* a 404 whose envelope carries an error_path and a status member of its own
C2_Witness ==
    /\ ReceivedResponse /\ resp.StatusCode = 404 /\ IsErrorEnvelope(resp.body)
    /\ Has(Member(resp.body, "error"), "status")
    /\ Has(Member(resp.body, "error"), "error_path")
    /\ ret.err.kind = "ErrorResponseError"
    /\ ret.err.Status = 404

\* C3: a non-success response whose body is malformed or not of the shape
\* of the error envelope makes the call return a ClientError, never an
\* ErrorResponseError, with the HTTP status as StatusCode, the raw body
\* text in Message and the parse failure as Err.
C3_ClientErrorForUnexpectedBody ==
    (ReceivedResponse /\ ~Is2xx(resp.StatusCode)
        /\ (~Has(resp.body, "error")
               \/ Tag(Member(resp.body, "error")) # "object")) =>
        /\ ret.err.kind = "ClientError"
        /\ ret.err.StatusCode = resp.StatusCode
        /\ Len(ret.err.Message) = 2 /\ ret.err.Message[2] = resp.body
        /\ Unwrap(ret.err) # Nil

\* C4: a call that receives a non-success response returns exactly one
\* non-nil error, an ErrorResponseError or a ClientError, handed on as the
\* classifier made it: text that is not JSON, or a body that could not be
\* read, never comes back as an ErrorResponseError, and an error envelope
\* never as a ClientError.
C4_OneTypedErrorPerFailure ==
    (Returned /\ resp.StatusCode \in Statuses /\ resp.doErr = Nil
        /\ ~Is2xx(resp.StatusCode)) =>
        /\ ret.err # Nil
        /\ ret.err.kind \in {"ErrorResponseError", "ClientError"}
        /\ ~ret.payload.ptr
        /\ (resp.readErr # Nil \/ Tag(resp.body) = "invalid")
               => ret.err.kind = "ClientError"
        /\ (resp.readErr = Nil /\ IsErrorEnvelope(resp.body))
               => ret.err.kind = "ErrorResponseError"

\* a 500 with a body that is not JSON, answered with a ClientError
C4_Witness ==
    /\ ReceivedResponse /\ resp.StatusCode = 500
    /\ Tag(resp.body) = "invalid"
    /\ ret.err.kind = "ClientError"
    /\ call.op = "CancelIncompleteSignatureRequest"

\* C5: for a body that does not contain the requested key parseResponse
\* fails and returns no payload, and the call returns a ClientError.
C5_MissingKeyFails ==
    (ReceivedResponse /\ PayloadCall /\ ParsedAsSuccess
        /\ ~Has(resp.body, "signature_request")) =>
        /\ parseResponse(resp.body, "signature_request").err # Nil
        /\ ~parseResponse(resp.body, "signature_request").payload.ptr
        /\ ret.err.kind = "ClientError"
        /\ ~ret.payload.ptr

\* the body {"other_key": {}} on a 200
C5_Witness ==
    /\ ReceivedResponse /\ PayloadCall /\ ParsedAsSuccess
    /\ Has(resp.body, "other_key")
    /\ ~Has(resp.body, "signature_request")
    /\ ret.err.kind = "ClientError"

\* C6: when the key is absent from a success body, the error the caller of
\* GetSignatureRequest or SendWithTemplate receives is a ClientError whose
\* message names the expected key.
C6_MissingKeyNamedInMessage ==
    (ReceivedResponse /\ PayloadCall /\ ParsedAsSuccess
        /\ Tag(resp.body) = "object"
        /\ ~Has(resp.body, "signature_request")) =>
        /\ ret.err.kind = "ClientError"
        /\ \/ "signature_request" \in Range(ClientErrorString(ret.err))
           \/ "signature_request" \in Range(ret.err.Message)

\* C7: a success body with a decodable payload under the key and without a
\* warnings member gives the decoded payload, no warnings and no error.
C7_PayloadWithoutWarnings ==
    (GoodPayloadResponse /\ ~Has(resp.body, "warnings")) =>
        /\ ret.err = Nil
        /\ ret.payload = Ptr(PayloadOf(Member(resp.body, "signature_request")))
        /\ Len(ret.warnings.elems) = 0

\* a body with only the payload, of which both fields come back
C7_Witness ==
    /\ GoodPayloadResponse /\ ~Has(resp.body, "warnings")
    /\ ret.err = Nil /\ ret.payload.ptr
    /\ ret.payload.v.SignatureRequestID = "abc"
    /\ ret.payload.v.Title = "T"

\* C8: a success body whose warnings member is an array of warning objects
\* gives the decoded payload and a warnings list of the same length, in the
\* same order and with the same warning_msg and warning_name.
C8_WarningsPreserved ==
    (GoodPayloadResponse /\ Has(resp.body, "warnings")
        /\ IsWarningArray(Member(resp.body, "warnings"))) =>
        LET w == Member(resp.body, "warnings")[2]
        IN  /\ ret.err = Nil
            /\ ret.payload = Ptr(PayloadOf(Member(resp.body, "signature_request")))
            /\ Len(ret.warnings.elems) = Len(w)
            /\ \A i \in DOMAIN w :
                   ret.warnings.elems[i] =
                       [WarningMsg |-> Member(w[i], "warning_msg")[2],
                        WarningName |-> Member(w[i], "warning_name")[2]]

\* two different warnings, returned in the order of the body
C8_Witness ==
    /\ GoodPayloadResponse /\ Has(resp.body, "warnings")
    /\ Member(resp.body, "warnings") = JArr(<<W2, W1>>)
    /\ Len(ret.warnings.elems) = 2
    /\ ret.warnings.elems[1].WarningName = "n2"
    /\ call.op = "SendWithTemplate"

C10_ParseFailurePropagates ==
    (ReceivedResponse /\ PayloadCall /\ ParsedAsSuccess
        /\ \/ Tag(resp.body) # "object"
           \/ /\ Has(resp.body, "signature_request")
              /\ ~DecodablePayload(Member(resp.body, "signature_request"))) =>
        /\ ret.err.kind = "ClientError"
        /\ ret.err.StatusCode = resp.StatusCode
        /\ ~ret.payload.ptr
        /\ Unwrap(ret.err) # Nil
        /\ Tag(resp.body) = "invalid" =>
               /\ Unwrap(ret.err).kind = "wrapError"
               /\ Unwrap(ret.err).cause = SyntaxError
        /\ Tag(resp.body) \notin {"invalid", "null"} =>
               /\ Unwrap(ret.err).kind = "wrapError"
               /\ Unwrap(ret.err).cause.kind = "UnmarshalTypeError"

\* a payload of the wrong type next to a well-formed warnings array
C10_Witness ==
    /\ ReceivedResponse /\ PayloadCall /\ ParsedAsSuccess
    /\ Has(resp.body, "signature_request") /\ Has(resp.body, "warnings")
    /\ ~DecodablePayload(Member(resp.body, "signature_request"))
    /\ Member(resp.body, "warnings") = JArr(<<W1>>)
    /\ ret.err.kind = "ClientError"
    /\ Unwrap(ret.err).cause.kind = "UnmarshalTypeError"

\* C11: GetSignatureRequest and SendWithTemplate never return a partial
\* result: with an error there is no payload and the warnings are nil, and
\* without an error there is a payload, the one decoded from the value under
\* the key of the body.
C11_NoPartialResult ==
    (Returned /\ PayloadCall) =>
        /\ ret.err # Nil => (~ret.payload.ptr /\ ret.warnings = NilSlice)
        /\ ret.err = Nil =>
               /\ ret.payload.ptr
               /\ ReceivedResponse
               /\ Has(resp.body, "signature_request")
               /\ ret.payload.v = PayloadOf(Member(resp.body, "signature_request"))

\* a body with a payload and a warning that came with a 400: the error alone
\* is returned
C11_Witness ==
    /\ ReceivedResponse /\ call.op = "GetSignatureRequest"
    /\ resp.StatusCode = 400
    /\ Has(resp.body, "signature_request")
    /\ DecodablePayload(Member(resp.body, "signature_request"))
    /\ Has(resp.body, "warnings")
    /\ Member(resp.body, "warnings") = JArr(<<W1>>)
    /\ ret.err # Nil /\ ~ret.payload.ptr /\ ret.warnings.isNil

\* the status an error of one of the two variants carries
IsVariant(e) == e.kind \in {"ErrorResponseError", "ClientError"}
StatusOf(e) ==
    IF e.kind = "ErrorResponseError" THEN e.Status
    ELSE IF e.kind = "ClientError" THEN e.StatusCode
    ELSE 0
PredicatesExact(e) ==
    /\ IsNotFound(e) <=> (IsVariant(e) /\ StatusOf(e) = 404)
    /\ IsBadRequest(e) <=> (IsVariant(e) /\ StatusOf(e) = 400)
    /\ IsUnauthorized(e) <=> (IsVariant(e) /\ StatusOf(e) = 401)
NoPredicate(e) == ~IsNotFound(e) /\ ~IsBadRequest(e) /\ ~IsUnauthorized(e)

\* C12: IsNotFound, IsBadRequest and IsUnauthorized are true exactly for an
\* ErrorResponseError or a *ClientError whose status is 404, 400 and 401,
\* and false for every other error: another status, the status 0, and a
\* value that is neither of the two (nil, the cause inside a ClientError, a
\* pointer to an ErrorResponseError, an error that wraps one).
C12_PredicatesMatchStatus ==
    Returned =>
        /\ PredicatesExact(ret.err)
        /\ ret.err.kind = "ClientError" =>
               /\ PredicatesExact(Unwrap(ret.err))
               /\ NoPredicate(Unwrap(ret.err))
        /\ ret.err.kind = "ErrorResponseError" =>
               /\ NoPredicate([ret.err EXCEPT !.kind = "*ErrorResponseError"])
               /\ NoPredicate(Errorf(<<"wrapped">>, ret.err))
               /\ NoPredicate([ret.err EXCEPT !.Status = 0])
        /\ (IsVariant(ret.err) /\ StatusOf(ret.err) \notin {400, 401, 404})
               => NoPredicate(ret.err)

\* a 404 whose body is not JSON: the ClientError is a not-found error too
C12_Witness ==
    /\ ReceivedResponse /\ resp.StatusCode = 404
    /\ Tag(resp.body) = "invalid"
    /\ ret.err.kind = "ClientError"
    /\ IsNotFound(ret.err)
    /\ ~IsNotFound(Unwrap(ret.err))

\* C13: of IsNotFound, IsBadRequest and IsUnauthorized at most one is true
\* of the error a call returns, and a 404 with a well-formed error body
\* gives IsNotFound and neither of the other two.
C13_PredicatesExclusive ==
    Returned =>
        /\ ~(IsNotFound(ret.err) /\ IsBadRequest(ret.err))
        /\ ~(IsNotFound(ret.err) /\ IsUnauthorized(ret.err))
        /\ ~(IsBadRequest(ret.err) /\ IsUnauthorized(ret.err))
        /\ (ReceivedResponse /\ resp.StatusCode = 404
               /\ IsErrorEnvelope(resp.body)) =>
               /\ IsNotFound(ret.err)
               /\ ~IsBadRequest(ret.err)
               /\ ~IsUnauthorized(ret.err)

\* the 404 with the error envelope, returned by GetSignatureRequest
C13_Witness ==
    /\ ReceivedResponse /\ resp.StatusCode = 404
    /\ IsErrorEnvelope(resp.body)
    /\ call.op = "GetSignatureRequest"
    /\ ret.err.kind = "ErrorResponseError"
    /\ IsNotFound(ret.err) /\ ~IsBadRequest(ret.err)

\* C15: no step of a call changes the client (apiKey, baseURL, httpClient
\* with its timeout), whether the call succeeds or fails, and a call that
\* starts has nothing of the call before it: no response, no payload, no
\* warnings, no error.
C15_CallsLeaveClient ==
    [][(pc' # pc \/ call' # call \/ resp' # resp \/ ret' # ret) =>
          /\ client' = client
          /\ pc' = "do" =>
                 /\ resp' = NoResp
                 /\ ~ret'.payload.ptr /\ ret'.warnings = NilSlice
                 /\ ret'.err = Nil]_vars

\* a call that failed with an API error, the client as NewClient made it
C15_Witness ==
    /\ Returned /\ ret.err.kind = "ErrorResponseError"
    /\ client = NewClient("api-key")
    /\ client.httpClient.Timeout = DefaultTimeout

\* the call noticed that its context is done: Do failed with the context's
\* error, or the read of the body did
CancellationSeen ==
    /\ Returned /\ "dispatch" \in Range(ret.steps)
    /\ \/ resp.doErr.kind = "url.Error" /\ resp.doErr \in CtxErrs
       \/ /\ resp.doErr = Nil
          /\ resp.readErr.kind = "url.Error" /\ resp.readErr \in CtxErrs
          /\ "read" \in Range(ret.steps)

\* C16: a call whose context is cancelled or runs into its deadline before
\* the call completes returns a ClientError, without payload and warnings,
\* whose cause is the context's error and so tells the cancellation from
\* any other failure of the transport.
C16_CancellationSurfaced ==
    CancellationSeen =>
        /\ ret.err.kind = "ClientError"
        /\ ~ret.payload.ptr /\ ret.warnings = NilSlice
        /\ Unwrap(ret.err).kind = "url.Error"
        /\ Unwrap(ret.err) \in CtxErrs
        /\ Unwrap(ret.err) # NetErr
        /\ Unwrap(ret.err) = IF resp.doErr # Nil THEN resp.doErr ELSE resp.readErr
        /\ client = NewClient(client.apiKey)

\* CancelIncompleteSignatureRequest under a context that was cancelled
\* before the call
C16_Witness ==
    /\ CancellationSeen /\ call.ctx = "canceled"
    /\ call.op = "CancelIncompleteSignatureRequest"
    /\ ret.err.kind = "ClientError"
    /\ Unwrap(ret.err) = Canceled

\* C17: CancelIncompleteSignatureRequest returns no error exactly when the
\* status of the response is 200, without reading the body, so that no body
\* makes a 200 fail; for every other status it returns an error of one of
\* the two kinds.
C17_CancelSucceedsOn200 ==
    (Returned /\ call.op = "CancelIncompleteSignatureRequest"
        /\ resp.doErr = Nil /\ resp.StatusCode \in Statuses) =>
        /\ ret.err = Nil <=> resp.StatusCode = 200
        /\ resp.StatusCode = 200 => "read" \notin Range(ret.steps)
        /\ resp.StatusCode # 200 =>
               ret.err.kind \in {"ErrorResponseError", "ClientError"}

\* a 200 whose body could not even be read
C17_Witness ==
    /\ Returned /\ call.op = "CancelIncompleteSignatureRequest"
    /\ resp.doErr = Nil /\ resp.StatusCode = 200
    /\ resp.readErr # Nil
    /\ ret.err = Nil

\* position of step x in steps, 0 when it is not there
StepAt(steps, x) ==
    IF x \in Range(steps)
    THEN CHOOSE i \in DOMAIN steps : steps[i] = x
    ELSE 0

\* C18: a request handed to the transport carries Basic credentials with
\* the API key as user name and the empty password, set before the
\* dispatch; SendWithTemplate also sets Content-Type: application/json; the
\* method and the path are GET /signature_request/{id},
\* POST /signature_request/send_with_template and
\* POST /signature_request/cancel/{id} under the base URL of the client.
C18_RequestShape ==
    "dispatch" \in Range(ret.steps) =>
        /\ call.req.User = client.apiKey
        /\ call.req.Password = ""
        /\ StepAt(ret.steps, "auth") > 0
        /\ StepAt(ret.steps, "auth") < StepAt(ret.steps, "dispatch")
        /\ call.req.URL[1] = client.baseURL
        /\ call.op = "GetSignatureRequest" =>
               /\ call.req.Method = "GET"
               /\ Len(call.req.URL) = 3
               /\ call.req.URL[2] = "/signature_request/"
               /\ call.req.URL[3] \in IDs
        /\ call.op = "SendWithTemplate" =>
               /\ call.req.Method = "POST"
               /\ call.req.URL[2] = "/signature_request/send_with_template"
               /\ Len(call.req.URL) = 2
               /\ call.req.ContentType = "application/json"
        /\ call.op = "CancelIncompleteSignatureRequest" =>
               /\ call.req.Method = "POST"
               /\ Len(call.req.URL) = 3
               /\ call.req.URL[2] = "/signature_request/cancel/"
               /\ call.req.URL[3] \in IDs

\* SendWithTemplate waiting in Do
C18_Witness ==
    /\ pc = "do" /\ call.op = "SendWithTemplate"
    /\ call.req.User = "api-key" /\ call.req.Password = ""
    /\ call.req.ContentType = "application/json"
    /\ Tag(call.req.Body) = "object"

Dispatches(steps) == Cardinality({i \in DOMAIN steps : steps[i] = "dispatch"})

\* C19: a call hands at most one request to the transport, whatever comes
\* of it, and a call that failed returns its ErrorResponseError or
\* ClientError after that one attempt.
C19_NoRetry ==
    /\ Dispatches(ret.steps) <= 1
    /\ (Returned /\ (resp.doErr # Nil \/ resp.StatusCode \in Statuses \ {200})) =>
           /\ ret.err.kind \in {"ErrorResponseError", "ClientError"}
           /\ Dispatches(ret.steps) = 1

\* a connection that was refused, reported after the one dispatch
C19_Witness ==
    /\ Returned /\ resp.doErr = NetErr
    /\ ret.err.kind = "ClientError"
    /\ Dispatches(ret.steps) = 1
    /\ ret.steps[Len(ret.steps)] = "dispatch"

\* C20: a ClientError returned for a failure on the client's side (request
\* construction, dispatch, body read, response parse, error body that does
\* not parse) carries the error that caused it, and Unwrap returns the very
\* cause the ClientError was built with, nil when there was none.
C20_CauseCarried ==
    /\ (Returned /\ ret.err.kind = "ClientError") =>
           /\ Unwrap(ret.err) # Nil
           /\ "dispatch" \notin Range(ret.steps) =>
                  Unwrap(ret.err).kind \in {"nil Context", "url.Error"}
           /\ ("dispatch" \in Range(ret.steps) /\ resp.doErr # Nil) =>
                  Unwrap(ret.err) = resp.doErr
           /\ (resp.doErr = Nil /\ resp.readErr # Nil) =>
                  Unwrap(ret.err) = resp.readErr
           /\ ParsedAsSuccess =>
                  Unwrap(ret.err) = parseResponse(resp.body, "signature_request").err
           /\ Classified =>
                  Unwrap(ret.err) = UnmarshalErrorResponse(resp.body).err
    /\ Unwrap(NewClientError(<<"m">>, 0, NetErr)) = NetErr
    /\ Unwrap(NewClientError(<<"m">>, 500, SyntaxError)) = SyntaxError
    /\ Unwrap(NewClientError(<<"m">>, 0, Nil)) = Nil

\* a body that ended early: the ClientError with the status of the response
\* has the read error inside
C20_Witness ==
    /\ Returned /\ ret.err.kind = "ClientError"
    /\ resp.doErr = Nil /\ resp.readErr = ReadErr
    /\ ret.err.StatusCode = 500
    /\ Unwrap(ret.err) = ReadErr

\* the goroutines that are in a call at once
InFlight == {g \in Goroutines : goroutines[g].pc = "do"}
GoReturned(g) == goroutines[g].pc = "idle" /\ goroutines[g].in.op # "none"
\* what the call with input in returns when it is the only one that uses the
\* client c and the transport answers it with t
Alone(c, in, t) ==
    LET r == PrepareRequest(c, in)
    IN  IF r.err # Nil
        THEN Failed(NewClientError(<<"failed to create request">>, 0, r.err),
                    <<"build">>)
        ELSE ReturnOf(in.op, t, <<"build", "auth", "dispatch">>)

\* C14: goroutines may call one configured client at once.  In every
\* interleaving of their GetSignatureRequest, SendWithTemplate and
\* CancelIncompleteSignatureRequest calls no step writes the client, so that
\* all accesses to it are reads that cannot conflict; each call hands to the
\* transport the request it would build alone, and returns what it would
\* return alone for its input and the answer it was given.
C14_ConcurrentCallsIndependent ==
    /\ [](\A g \in Goroutines :
              /\ g \in InFlight =>
                     goroutines[g].req =
                         PrepareRequest(NewClient("api-key"), goroutines[g].in).val
              /\ GoReturned(g) =>
                     goroutines[g].ret =
                         Alone(NewClient("api-key"), goroutines[g].in,
                               goroutines[g].resp))
    /\ [][client' = client]_vars

\* a GetSignatureRequest that returned its payload while a SendWithTemplate of another goroutine
\* was waiting in Do
C14_Witness ==
    \E g \in Goroutines, h \in Goroutines :
        /\ g # h
        /\ GoReturned(g) /\ goroutines[g].in.op = "GetSignatureRequest"
        /\ goroutines[g].ret.err = Nil /\ goroutines[g].ret.payload.ptr
        /\ h \in InFlight /\ goroutines[h].in.op = "SendWithTemplate"
        /\ goroutines[h].req.URL # goroutines[g].req.URL

\* the call returned without a response: its request was not built, or Do
\* failed
NoResponseReceived ==
    Returned /\ ("dispatch" \notin Range(ret.steps) \/ resp.doErr # Nil)

\* C24: the StatusCode of a ClientError a call returns is 0 exactly when no
\* response was received (the request was not built, or Do failed), and is
\* the status of the response otherwise (body not read, success body not
\* parsed, error body not parsed); so IsNotFound, IsBadRequest and
\* IsUnauthorized are false of every failure before a response.
C24_StatusCodeOfClientError ==
    /\ (Returned /\ ret.err.kind = "ClientError") =>
           /\ ret.err.StatusCode = 0 <=> NoResponseReceived
           /\ ~NoResponseReceived =>
                  /\ resp.StatusCode \in Statuses
                  /\ ret.err.StatusCode = resp.StatusCode
    /\ NoResponseReceived =>
           /\ ret.err.kind = "ClientError"
           /\ NoPredicate(ret.err)

\* SendWithTemplate whose 404 came with a body that broke off
C24_Witness ==
    /\ Returned /\ call.op = "SendWithTemplate"
    /\ resp.doErr = Nil /\ resp.StatusCode = 404 /\ resp.readErr = ReadErr
    /\ ret.err.kind = "ClientError" /\ ret.err.StatusCode = 404
    /\ IsNotFound(ret.err)

\* C25: the steps of a call come in the order build, credentials, dispatch,
\* read, and then either the response parser or the error classifier; a
\* request that could not be built is not dispatched; the response parser
\* runs only for a response with a success (2xx) status and the classifier
\* only for one with another status, never both.
C25_StepOrder ==
    /\ (Returned /\ call.req = NoRequest) => Dispatches(ret.steps) = 0
    /\ "dispatch" \in Range(ret.steps) =>
           /\ StepAt(ret.steps, "build") = 1
           /\ StepAt(ret.steps, "auth") = 2
           /\ StepAt(ret.steps, "dispatch") = 3
    /\ "read" \in Range(ret.steps) => StepAt(ret.steps, "read") = 4
    /\ ParsedAsSuccess =>
           /\ StepAt(ret.steps, "parseResponse") = 5
           /\ Is2xx(resp.StatusCode)
    /\ Classified =>
           /\ StepAt(ret.steps, "parseErrorResponse") = 5
           /\ ~Is2xx(resp.StatusCode)
    /\ ~(ParsedAsSuccess /\ Classified)

\* C28: parseResponse looks for the key, not at its value: a 200 whose body
\* is an object with null under the key succeeds with a payload that is
\* not nil and has the zero value.
C28_NullPayloadAccepted ==
    (ReceivedResponse /\ PayloadCall /\ ParsedAsSuccess
        /\ Has(resp.body, "signature_request")
        /\ Tag(Member(resp.body, "signature_request")) = "null") =>
        /\ parseResponse(resp.body, "signature_request").err = Nil
        /\ ret.err = Nil
        /\ ret.payload.ptr
        /\ ret.payload.v = ZeroSignatureRequestResponse

\* {"signature_request": null, "warnings": [w1]}: the zero payload and the
\* warning come back
C28_Witness ==
    /\ ReceivedResponse /\ call.op = "GetSignatureRequest"
    /\ Has(resp.body, "signature_request")
    /\ Member(resp.body, "signature_request") = JNull
    /\ Has(resp.body, "warnings")
    /\ Member(resp.body, "warnings") = JArr(<<W1>>)
    /\ ret.err = Nil /\ ret.payload.ptr
    /\ ret.payload.v.SignatureRequestID = ""
    /\ Len(ret.warnings.elems) = 1

\* C26: when the transport answers every request in the end, every call
\* returns, whatever the other goroutines do: a goroutine that waits in Do
\* comes to the return of its call, once, with no error or with one
\* ErrorResponseError or ClientError.
C26_CallsReturn ==
    \A g \in Goroutines :
        (goroutines[g].pc = "do") ~>
            /\ GoReturned(g)
            /\ Len(goroutines[g].ret.steps) <= 5
            /\ \/ goroutines[g].ret.err = Nil
               \/ IsVariant(goroutines[g].ret.err)

\* every goroutine has returned from a call that was in Do, one of them
\* with a payload and one with an error
C26_Witness ==
    /\ \A g \in Goroutines :
           GoReturned(g) /\ "dispatch" \in Range(goroutines[g].ret.steps)
    /\ \E g \in Goroutines : goroutines[g].ret.payload.ptr
    /\ \E g \in Goroutines : goroutines[g].ret.err.kind = "ClientError"

\* C21: ErrorResponseError.Error gives "<name> (<path>): <msg>" when the
\* path is there and not empty, and "<name>: <msg>" when the path is nil or
\* the empty string; the Status has no part in it.
C21_ErrorText ==
    result.fn = "Error" =>
        LET e == result.in
        IN  /\ (e.ErrorPath.ptr /\ e.ErrorPath.v # "") =>
                   result.out =
                       <<e.ErrorName, " (", e.ErrorPath.v, "): ", e.ErrorMsg>>
            /\ (~e.ErrorPath.ptr \/ e.ErrorPath.v = "") =>
                   result.out = <<e.ErrorName, ": ", e.ErrorMsg>>
            /\ \A st \in {0, 200, 400, 404, 500} :
                   ErrorResponseErrorString([e EXCEPT !.Status = st]) = result.out

\* an error with the empty path and the status 404
C21_Witness ==
    /\ result.fn = "Error"
    /\ result.in.ErrorPath = Ptr("") /\ result.in.Status = 404
    /\ result.out = <<"not_found", ": ", "Signature request not found">>

\* C29: ParseSignerStatus is total and lower-cases and trims its argument:
\* a string that is then one of the twelve known statuses gives that
\* status, each its own, and every other string (the empty one and
\* "unknown_enum" too) gives SignerStatusUnknownEnum; parsing the result
\* again gives the result; UnmarshalJSON fails only on data that is not a
\* JSON string, and leaves the status as it was then.
C29_ParseSignerStatus ==
    /\ result.fn = "ParseSignerStatus" =>
           LET n == TrimSpace(ToLower(result.in))
           IN  /\ result.out \in SignerStatuses
               /\ n \in SignerStatuses \ {SignerStatusUnknownEnum} =>
                      result.out = n
               /\ n \notin SignerStatuses \ {SignerStatusUnknownEnum} =>
                      result.out = SignerStatusUnknownEnum
               /\ ParseSignerStatus(result.out) = result.out
    /\ result.fn = "UnmarshalJSON" =>
           LET cur == result.in[1]
               data == result.in[2]
           IN  /\ result.out.err # Nil => Tag(data) # "string"
               /\ result.out.err # Nil => result.out.val = cur
               /\ Tag(data) = "string" =>
                      /\ result.out.err = Nil
                      /\ result.out.val = ParseSignerStatus(data[2])
    /\ Cardinality(SignerStatuses) = 13

\* "\t<U+00A0>ERROR_UNKNOWN\r " parsed to error_unknown
C29_Witness ==
    /\ result.fn = "ParseSignerStatus"
    /\ Len(result.in) = Len(SignerStatusErrorUnknown) + 4
    /\ result.in[3] = "E"
    /\ result.in # result.out
    /\ result.out = SignerStatusErrorUnknown

\* the http.Client the configured client points to
Installed == config.heap[config.c.httpClient]

\* C22: NewClient(k) gives a client with the API key k, the base URL
\* https://api.hellosign.com/v3 and an http.Client of its own with the
\* timeout of 30 seconds; after WithBaseURL(u) the base URL is u and the
\* requests of the calls that follow go to u; after WithTimeout(t) the
\* timeout of the http.Client is t.
C22_ClientConfiguration ==
    (config.made /\ ~config.last.panicked) =>
        /\ config.last.op = "NewClient" =>
               /\ config.c.apiKey = config.last.str
               /\ config.c.baseURL = "https://api.hellosign.com/v3"
               /\ config.c.httpClient = "own"
               /\ Installed.Timeout = 30
        /\ config.last.op = "WithBaseURL" => config.c.baseURL = config.last.str
        /\ config.last.op = "WithTimeout" =>
               Installed.Timeout = config.last.timeout
        /\ (config.last.op = "call" /\ config.req # NoRequest) =>
               /\ config.req.URL[1] = config.wantURL
               /\ config.req.User = config.c.apiKey

\* a request of a call that went to the base URL set with WithBaseURL
C22_Witness ==
    /\ config.made /\ config.last.op = "call"
    /\ ~config.last.panicked
    /\ config.req.URL[1] = "https://custom.api.com"
    /\ config.req.User = "key-2"
    /\ Installed.Timeout = 60

\* C27: WithTimeout, WithHTTPClient and WithBaseURL change the client they
\* are called on and return it: WithBaseURL changes baseURL and nothing
\* else, WithHTTPClient the pointer to the http.Client and nothing else
\* (no http.Client changes, so a timeout set before does not come along),
\* WithTimeout the Timeout of the installed http.Client, the program's
\* own one too, and nothing else.
C27_SettersFrame ==
    [][(config.made /\ config'.made /\ config' # config
          /\ ~config'.last.panicked
          /\ config'.last.op \in {"WithTimeout", "WithHTTPClient", "WithBaseURL"}) =>
          /\ config'.last.returned = "c"
          /\ config'.c.apiKey = config.c.apiKey
          /\ config'.last.op = "WithBaseURL" =>
                 /\ config'.c = [config.c EXCEPT !.baseURL = config'.last.str]
                 /\ config'.heap = config.heap
          /\ config'.last.op = "WithHTTPClient" =>
                 /\ config'.c = [config.c EXCEPT !.httpClient = config'.last.str]
                 /\ config'.heap = config.heap
          /\ config'.last.op = "WithTimeout" =>
                 /\ config'.c = config.c
                 /\ config'.heap =
                        [config.heap EXCEPT
                            ![config.c.httpClient].Timeout = config'.last.timeout]]_vars

\* the program's http.Client installed after the timeout of the first one
\* was set to 60 seconds: it still has its own 5 seconds
C27_Witness ==
    /\ config.made /\ config.last.op = "WithHTTPClient"
    /\ config.c.httpClient = "custom"
    /\ config.heap["own"].Timeout = 60
    /\ config.heap["custom"].Timeout = 5

\* the JSON names of the optional fields and the fields they belong to
NoKeys == [k \in {} |-> ""]
RequestStringKeys ==
    [client_id |-> "ClientID", message |-> "Message",
     signing_redirect_url |-> "SigningRedirectURL", title |-> "Title"]
RequestBoolKeys ==
    [allow_decline |-> "AllowDecline", is_eid |-> "IsEID",
     test_mode |-> "TestMode"]
RequestSliceKeys ==
    [ccs |-> "CCs", custom_fields |-> "CustomFields", files |-> "Files",
     file_urls |-> "FileURLs"]
SignerStringKeys ==
    [pin |-> "Pin", sms_phone_number |-> "SMSPhoneNumber",
     sms_phone_number_type |-> "SMSPhoneNumberType"]
CustomFieldStringKeys == [editor |-> "Editor", value |-> "Value"]
CustomFieldBoolKeys == [required |-> "Required"]
SigningOptionsBoolKeys ==
    [draw |-> "Draw", phone |-> "Phone", type |-> "Type", upload |-> "Upload"]

\* the object obj has the member of an optional *string or *bool field of
\* the value v exactly when the field is not nil, and with its value
PointersAsSet(obj, v, strs, bools) ==
    /\ Tag(obj) = "object"
    /\ \A k \in DOMAIN strs :
          /\ Has(obj, k) <=> v[strs[k]].ptr
          /\ Has(obj, k) => Member(obj, k) = JStr(v[strs[k]].v)
    /\ \A k \in DOMAIN bools :
          /\ Has(obj, k) <=> v[bools[k]].ptr
          /\ Has(obj, k) => Member(obj, k) = JBool(v[bools[k]].v)

\* the elements of the array obj[k], when there is one, have the optional
\* members of the elements of the slice
ElementsAsSet(obj, k, slice, strs, bools) ==
    (Has(obj, k) /\ Tag(Member(obj, k)) = "array") =>
        /\ Len(Member(obj, k)[2]) = Len(slice.elems)
        /\ \A i \in DOMAIN slice.elems :
              PointersAsSet(Member(obj, k)[2][i], slice.elems[i], strs, bools)

\* C23: in the body that SendWithTemplate sends, signers and template_ids
\* are always there, and an optional field of the request, of a signer, of
\* a custom field and of the signing options is there exactly when it
\* was set (is not nil), with the value it was set to, false included.
C23_OptionalFieldsAsSet ==
    builder.sent =>
        LET body == builder.body
            request == Pointed(builder)
        IN  /\ Has(body, "signers") /\ Has(body, "template_ids")
            /\ PointersAsSet(body, request, RequestStringKeys, RequestBoolKeys)
            /\ \A k \in DOMAIN RequestSliceKeys :
                  /\ Has(body, k) <=> ~request[RequestSliceKeys[k]].isNil
                  /\ Has(body, k) =>
                        /\ Tag(Member(body, k)) = "array"
                        /\ Len(Member(body, k)[2]) =
                              Len(request[RequestSliceKeys[k]].elems)
            /\ Has(body, "metadata") <=> ~request.Metadata.isNil
            /\ Has(body, "signing_options") <=> request.SigningOptions.ptr
            /\ Has(body, "signing_options") =>
                  PointersAsSet(Member(body, "signing_options"),
                                request.SigningOptions.v, NoKeys,
                                SigningOptionsBoolKeys)
            /\ ElementsAsSet(body, "signers", request.Signers,
                             SignerStringKeys, NoKeys)
            /\ ElementsAsSet(body, "custom_fields", request.CustomFields,
                             CustomFieldStringKeys, CustomFieldBoolKeys)

\* the field a setter sets, and the value it gives it
OwnField ==
    [WithAllowDecline |-> "AllowDecline", WithCCs |-> "CCs",
     WithClientID |-> "ClientID", WithCustomFields |-> "CustomFields",
     WithFiles |-> "Files", WithFileURLs |-> "FileURLs", WithIsEID |-> "IsEID",
     WithMessage |-> "Message", WithMetadata |-> "Metadata",
     WithSigningOptions |-> "SigningOptions",
     WithSigningRedirectURL |-> "SigningRedirectURL",
     WithTestMode |-> "TestMode", WithTitle |-> "Title",
     WithPin |-> "Pin", WithSMSPhoneNumber |-> "SMSPhoneNumber",
     WithSMSPhoneNumberType |-> "SMSPhoneNumberType",
     WithEditor |-> "Editor", WithRequired |-> "Required",
     WithValue |-> "Value",
     WithDraw |-> "Draw", WithPhone |-> "Phone", WithType |-> "Type",
     WithUpload |-> "Upload"]
BoolSetters ==
    {"WithAllowDecline", "WithIsEID", "WithTestMode", "WithRequired",
     "WithDraw", "WithPhone", "WithType", "WithUpload"}
StringSetters ==
    {"WithClientID", "WithMessage", "WithSigningRedirectURL", "WithTitle",
     "WithPin", "WithSMSPhoneNumber", "WithSMSPhoneNumberType", "WithEditor",
     "WithValue"}
OwnValue(c) ==
    IF c[1] \in BoolSetters THEN BoolPtr(c[3])
    ELSE IF c[1] \in StringSetters THEN Ptr(c[3])
    ELSE c[3]

\* C30: a setter of SendSignatureRequest or SubSigningOptions gives its
\* own field of the object it is called on the value of its argument,
\* changes no other field and returns the pointer it was called on, so
\* the last call for a field decides; a setter of
\* SubSignatureRequestTemplateSigner or SubCustomField returns a copy with
\* its own field set and leaves the value it was called on as it was.
C30_SettersSetOwnField ==
    [][Len(builder'.calls) = Len(builder.calls) + 1 =>
          LET c == builder'.calls[Len(builder'.calls)]
              f == OwnField[c[1]]
          IN  /\ c[2] = "s" =>
                    /\ c[4] = "s"
                    /\ builder'.s = [builder.s EXCEPT ![f] = OwnValue(c)]
                    /\ builder'.opts = builder.opts
              /\ c[2] = "opts" =>
                    /\ c[4] = "opts"
                    /\ builder'.opts = [builder.opts EXCEPT ![f] = OwnValue(c)]
                    /\ builder'.s = builder.s
              /\ c[2] \in {"s", "opts"} =>
                    /\ builder'.signer = builder.signer
                    /\ builder'.signerRet = builder.signerRet
                    /\ builder'.field = builder.field
                    /\ builder'.fieldRet = builder.fieldRet
              /\ c[2] \in SignerVars =>
                    /\ c[4] = "copy"
                    /\ builder'.signerRet =
                          [builder[c[2]] EXCEPT ![f] = OwnValue(c)]
                    /\ builder'.signer = builder.signer
                    /\ builder'.field = builder.field
                    /\ builder'.fieldRet = builder.fieldRet
              /\ c[2] \in FieldVars =>
                    /\ c[4] = "copy"
                    /\ builder'.fieldRet =
                          [builder[c[2]] EXCEPT ![f] = OwnValue(c)]
                    /\ builder'.field = builder.field
                    /\ builder'.signer = builder.signer
                    /\ builder'.signerRet = builder.signerRet
              /\ c[2] \in SignerVars \cup FieldVars =>
                    /\ builder'.s = builder.s
                    /\ builder'.opts = builder.opts]_vars

\* WithPin called on the signer gave a copy with the pin and left the
\* signer without one; the request made with the copy got its title from
\* WithTitle
C30_Witness ==
    /\ Len(builder.calls) = 2
    /\ builder.calls[1] = <<"WithPin", "signer", "1234", "copy">>
    /\ builder.calls[2] = <<"WithTitle", "s", "Contract", "s">>
    /\ ~builder.signer.Pin.ptr
    /\ builder.signerRet.Pin = Ptr("1234")
    /\ builder.s.Title = Ptr("Contract")
    /\ builder.s.Signers = Slice(<<builder.signerRet>>)

====
